---------------------------- MODULE Spec2Model ----------------------------
(***************************************************************************)
(* VeraLux HyperMetric Stretch (PixInsight module): the engine's stages    *)
(* (src/src/core/VeraLuxEngine.cpp) and the process instance that runs     *)
(* them (HyperMetricStretchInstance, src/unnamed/part_001).                *)
(*                                                                         *)
(* Numbers.  Samples are float/double in the code.  Here a real value v is *)
(* the integer v * One (fixed point, six decimals, rounded toward minus    *)
(* infinity); percentages are in thousandths of a percent.  TLC's integers *)
(* are 32 bit, so products go through MulDiv, which never forms a*b.       *)
(***************************************************************************)
EXTENDS Integers, Sequences, FiniteSets, TLC

VARIABLES
    call,       \* function under test: its name and its arguments
    frame,      \* local variables of the running function / previous call
    ret,        \* value returned ("pending" before the call)
    inst,       \* the HyperMetricStretchInstance: its parameters
    image,      \* pixel data of the view (ExecuteOn) or of img (Preview)
    stages      \* the engine stages the running ExecuteOn/Preview has run

vars == <<call, frame, ret, inst, image, stages>>

\* What a direct call of an engine function leaves alone.
process == <<inst, image, stages>>

(***************************************************************************)
(* Fixed-point arithmetic                                                  *)
(***************************************************************************)
One == 1000 * 1000

Max(a, b) == IF a >= b THEN a ELSE b
Min(a, b) == IF a <= b THEN a ELSE b
Abs(a) == IF a < 0 THEN -a ELSE a

\* <<q, r>> with a*b = q*c + r and 0 <= r < c, for a, b >= 0 and c > 0,
\* by doubling on b: no intermediate value exceeds 2*c + a.
RECURSIVE MulDivQR(_, _, _)
MulDivQR(a, b, c) ==
    IF b = 0 THEN <<0, 0>>
    ELSE LET h == MulDivQR(a, b \div 2, c)
             r == 2 * h[2] + (IF b % 2 = 1 THEN a ELSE 0)
         IN  <<2 * h[1] + (r \div c), r % c>>

\* The quotient of qr = <<q, r>> rounded toward minus infinity, negated when
\* the operands differ in sign.
SignedQuotient(qr, negative) ==
    IF ~negative THEN qr[1]
    ELSE IF qr[2] = 0 THEN -qr[1] ELSE -qr[1] - 1

\* floor(a*b/c) for integers a, b (either sign) and c > 0.
MulDiv(a, b, c) ==
    SignedQuotient(MulDivQR(Abs(a), Abs(b), c), (a >= 0) # (b >= 0))

\* <<q, r>> with a*b = q*One + r and 0 <= r < One, for a, b >= 0, by parts
\* of three decimal digits (Kilo * Kilo = One).
Kilo == 10 * 100

PartsQR(a1, a0, b1, b0) ==
    <<a1 * b1 + (a1 * b0 + a0 * b1 + ((a0 * b0) \div Kilo)) \div Kilo,
      ((a1 * b0 + a0 * b1 + ((a0 * b0) \div Kilo)) % Kilo) * Kilo
         + ((a0 * b0) % Kilo)>>

MulQR(a, b) == PartsQR(a \div Kilo, a % Kilo, b \div Kilo, b % Kilo)

\* x*y and x/y on values scaled by One, rounded toward minus infinity.
Mul(x, y) == SignedQuotient(MulQR(Abs(x), Abs(y)), (x >= 0) # (y >= 0))

\* floor(x*One/y) by long division in two steps of three digits, for
\* |x| <= 2*One and 0 < y <= 2*One.
ShortDiv(x, y) ==
    ((x * Kilo) \div y) * Kilo + ((((x * Kilo) % y) * Kilo) \div y)

Div(x, y) ==
    IF Abs(x) <= 2 * One /\ y <= 2 * One THEN ShortDiv(x, y)
    ELSE MulDiv(x, One, y)

Square(x) == Mul(x, x)

(***************************************************************************)
(* Elementary functions of the math library (Sqrt, Ln, Exp, Pow10,         *)
(* ArcSinh), computed in fixed point to within a few units of 1/One.       *)
(***************************************************************************)
\* floor(sqrt(v)) in fixed point, for 0 <= v: Newton's iteration downward
\* from a value that is not below the root.
RECURSIVE SqrtFrom(_, _)
SqrtStep(v, s, t) == IF t >= s THEN s ELSE SqrtFrom(v, t)
SqrtFrom(v, s) == SqrtStep(v, s, (s + MulDiv(One, v, s)) \div 2)

Sqrt(v) ==
    IF v <= 0 THEN 0
    ELSE SqrtFrom(v, IF v >= One THEN Min(v, 47 * One) ELSE One)

\* c[1] + x*(c[2] + x*(c[3] + ...)).
RECURSIVE Horner(_, _)
Horner(x, c) ==
    IF Len(c) = 1 THEN c[1] ELSE c[1] + Mul(x, Horner(x, Tail(c)))

\* 2*atanh(z) by its series up to z^13.
TwoAtanh(z) ==
    2 * Mul(z, Horner(Square(z),
                      <<One, One \div 3, One \div 5, One \div 7, One \div 9,
                        One \div 11, One \div 13>>))

\* ln(w) for One <= w <= 2*One: 2*atanh((w - 1)/(w + 1)).
LnSeries(w) == TwoAtanh(Div(w - One, w + One))

Ln2 == LnSeries(2 * One)

\* ln(w) for w >= One, halving w into [1, 2).
RECURSIVE Ln(_)
Ln(w) == IF w >= 2 * One THEN Ln2 + Ln(w \div 2) ELSE LnSeries(w)

Ln10 == Ln(10 * One)

\* 1 + z/k*(1 + z/(k+1)*(1 + ...)), up to the 8th power of z.
RECURSIVE ExpSeries(_, _)
ExpSeries(z, k) ==
    IF k > 8 THEN One ELSE One + Mul(z, ExpSeries(z, k + 1)) \div k

RECURSIVE SquareTimes(_, _)
SquareTimes(e, n) == IF n = 0 THEN e ELSE SquareTimes(Square(e), n - 1)

\* exp(y) for 0 <= y <= 4: exp(y/8) squared three times.
Exp(y) == SquareTimes(ExpSeries(y \div 8, 1), 3)

RECURSIVE TenTo(_)
TenTo(k) == IF k <= 0 THEN 1 ELSE 10 * TenTo(k - 1)

\* Wide reals.  A stretch factor D = 10^logD reaches 10^7, beyond the fixed
\* point range; <<hi, lo>> is the real hi + lo/One, with 0 <= lo < One.
Wide(hi, lo) == <<hi + lo \div One, lo % One>>
WideOf(x) == <<x \div One, x % One>>
WideLess(a, b) == a[1] < b[1] \/ (a[1] = b[1] /\ a[2] < b[2])
WideAdd(a, b) == Wide(a[1] + b[1], a[2] + b[2])
WideSub(a, b) == Wide(a[1] - b[1] - 1, a[2] + One - b[2])     \* for a >= b
WideHalf(a) == <<a[1] \div 2, (a[2] + (a[1] % 2) * One) \div 2>>
WideMax(a, b) == IF WideLess(a, b) THEN b ELSE a

\* d * x for a wide d and a fixed-point x >= 0.
WideMul(d, x) == WideAdd(MulQR(d[1], x), <<0, Mul(d[2], x)>>)

\* Pow10( logD ) for 0 <= logD < 8, as a wide real: 10^frac * 10^int.
Pow10(logD) == MulQR(Exp(Mul(logD % One, Ln10)), TenTo(logD \div One))

\* ln of a wide real a >= 1.
RECURSIVE LnWide(_)
LnWide(a) ==
    IF a[1] >= 1000 THEN Ln2 + LnWide(WideHalf(a)) ELSE Ln(a[1] * One + a[2])

\* x + sqrt(x^2 + 1) for 0 <= x < 500; from 1 on as x + x*sqrt(1 + 1/x^2).
HypArg(x) ==
    x + Mul(Max(x, One),
            Sqrt(One + Square(IF x < One THEN x ELSE Div(One, x))))

\* ArcSinh( a ) = ln( a + sqrt( a^2 + 1 ) ) for a wide real a >= 0.  From 500
\* on asinh(a) - ln(2a) is below 1/One.
ArcSinhWide(a) ==
    LnWide(IF a[1] >= 500 THEN WideAdd(a, a)
           ELSE WideOf(HypArg(a[1] * One + a[2])))

\* ArcSinh( q - p ) or ArcSinh( q + p ) for wide p, q >= 0; ArcSinh is odd.
ArcSinhSigned(p, q, minus) ==
    (IF minus /\ WideLess(q, p) THEN -1 ELSE 1)
      * ArcSinhWide(IF ~minus THEN WideAdd(p, q)
                    ELSE IF WideLess(q, p) THEN WideSub(p, q)
                    ELSE WideSub(q, p))

\* ArcSinh( d*x + b ) for a wide d >= 0 and fixed-point x (either sign) and
\* b >= 0.
ArcSinhAffine(d, x, b) == ArcSinhSigned(WideMul(d, Abs(x)), WideOf(b), x < 0)

ArcSinh(b) == ArcSinhWide(WideOf(b))

(***************************************************************************)
(* Statistics kernel: percentiles                                          *)
(***************************************************************************)
PctUnit == 10 * 100   \* pct arguments are in 1/PctUnit percent
Pct100 == 100 * PctUnit

RECURSIVE Insert(_, _)
Insert(x, s) ==
    IF s = <<>> THEN <<x>>
    ELSE IF x <= Head(s) THEN <<x>> \o s
    ELSE <<Head(s)>> \o Insert(x, Tail(s))

\* std::sort on a vector<float> without NaN.
RECURSIVE SortAscending(_)
SortAscending(s) == IF s = <<>> THEN <<>> ELSE Insert(Head(s), SortAscending(Tail(s)))

IsSorted(s) == \A i \in 1..(Len(s) - 1) : s[i] <= s[i + 1]

\* Mutant of PercentileFromSorted: the upper neighbour is not used (i1 = i0).
PercentileFromSorted_NoUpper(sorted, pct) ==
    IF sorted = <<>> THEN 0
    ELSE LET p == Max(0, Min(pct, Pct100))
         IN  IF Len(sorted) = 1 THEN sorted[1]
             ELSE sorted[(p * (Len(sorted) - 1)) \div Pct100 + 1]

\* Mutant of PercentileFromSorted: the interpolation weight is applied from
\* the upper entry (v1 - f*(v1 - v0)).
PercentileFromSorted_Reversed(sorted, pct) ==
    IF sorted = <<>> THEN 0
    ELSE LET p == Max(0, Min(pct, Pct100))
         IN  IF Len(sorted) = 1 THEN sorted[1]
             ELSE LET n   == Len(sorted)
                      i0  == (p * (n - 1)) \div Pct100
                      i1  == Min(i0 + 1, n - 1)
                      num == (p * (n - 1)) % Pct100
                  IN  sorted[i1 + 1]
                        + MulDiv(num, sorted[i0 + 1] - sorted[i1 + 1], Pct100)

\* PercentileFromSorted: pos = pct/100*(n-1), i0 = floor(pos), f = pos - i0,
\* result v0 + f*(v1 - v0).  Indices are 0-based in the code, 1-based here.
PercentileFromSorted(sorted, pct) ==
    IF sorted = <<>> THEN 0
    ELSE LET p == Max(0, Min(pct, Pct100))
         IN  IF Len(sorted) = 1 THEN sorted[1]
             ELSE LET n   == Len(sorted)
                      i0  == (p * (n - 1)) \div Pct100
                      i1  == Min(i0 + 1, n - 1)
                      num == (p * (n - 1)) % Pct100     \* f = num / Pct100
                      v0  == sorted[i0 + 1]
                      v1  == sorted[i1 + 1]
                  IN  v0 + MulDiv(num, v1 - v0, Pct100)

PercentileInPlace(sample, pct) ==
    IF sample = <<>> THEN 0
    ELSE PercentileFromSorted(SortAscending(sample), pct)

\* data[0], data[stride], data[2*stride], ... below count.
Subsample(data, count, stride) ==
    LET st == Max(1, stride)
        k  == (count + st - 1) \div st
    IN  [j \in 1..k |-> data[(j - 1) * st + 1]]

SubsamplePercentile(data, count, stride, pct) ==
    IF count = 0 THEN 0
    ELSE PercentileInPlace(Subsample(data, count, stride), pct)

(***************************************************************************)
(* Images.  An image is [fmt, width, height, nch, px]; px[c][i] is sample  *)
(* i (row major) of channel c.  A sample of a floating-point source is in  *)
(* 1/FloatUnit, or one of NaN, PosInf, NegInf; a sample of an integer      *)
(* source is its code (a UInt32 code is counted in units of UInt32Unit,    *)
(* 4294967295 = UInt16Max * UInt32Unit); a sample of a normalized image    *)
(* (pcl::Image, 32-bit float) is in 1/One.                                 *)
(***************************************************************************)
FloatUnit == 10 * 100
Huge == 2000 * One                \* finite samples are below Huge in size
NaN == Huge + 3
PosInf == Huge + 2
NegInf == -(Huge + 2)
IsFinite(v) == v # NaN /\ v # PosInf /\ v # NegInf

UInt8Max == 255
UInt16Max == 65535
UInt32Unit == 65537

IntegerFormats == {"UInt8", "UInt16", "UInt32"}
FloatFormats == {"Float32", "Float64"}
ComplexFormats == {"Complex32", "Complex64"}

EmptyImage == [fmt |-> "Float32", width |-> 0, height |-> 0, nch |-> 0, px |-> <<>>]

NumberOfPixels(img) == img.width * img.height

AllSamples(img) == {img.px[c][i] : c \in 1..img.nch, i \in 1..NumberOfPixels(img)}

MapSamples(img, F(_)) ==
    [img EXCEPT !.fmt = "Float32",
                !.px = [c \in 1..img.nch |->
                          [i \in 1..NumberOfPixels(img) |-> F(img.px[c][i])]]]

SetMax(S) == CHOOSE m \in S : \A x \in S : x <= m
SetMin(S) == CHOOSE m \in S : \A x \in S : m <= x

\* Image::Truncate( lo, hi ).
Truncate(img, lo, hi) == MapSamples(img, LAMBDA v : Max(lo, Min(v, hi)))

(***************************************************************************)
(* NormalizeInput                                                          *)
(***************************************************************************)
\* What MaximumSampleValue may return.  A comparison with NaN is false
\* whichever way it is written, so with a NaN in the image the scan can end
\* on any sample; without one it is the largest sample.
MaximumSampleValueOutcomes(img) ==
    IF NaN \in AllSamples(img) THEN AllSamples(img)
    ELSE {SetMax(AllSamples(img))}

\* The divisor chosen from maxVal, as the pair <<d1, d2>> for d1*d2.
FloatDivisor(maxVal) ==
    IF maxVal # NaN /\ maxVal > (11 * FloatUnit) \div 10
    THEN IF maxVal < 100000 * FloatUnit THEN <<UInt16Max, 1>>
         ELSE <<UInt16Max, UInt32Unit>>
    ELSE <<1, 1>>

\* v / (d1*d2) for a float sample v (in 1/FloatUnit), in 1/One.  A finite
\* quotient too large for the fixed-point range is kept as the finite value
\* Huge - 1, which is above everything it is compared with afterwards.
DivideFloatMagnitude(v, d) ==
    IF v \div d[1] >= 2 * FloatUnit THEN Huge - 1
    ELSE MulDiv(One \div FloatUnit, v, d[1]) \div d[2]

DivideFloatSample(v, d) ==
    IF ~IsFinite(v) THEN v
    ELSE IF v >= 0 THEN DivideFloatMagnitude(v, d)
    ELSE -DivideFloatMagnitude(-v, d)

\* Mutant of Sanitize: only NaN is replaced, as the comment above the loop
\* in the code could be read if IsFinite were IsNaN.
Sanitize_NaNOnly(v) == IF v = NaN \/ (v < 0 /\ v # NegInf) THEN 0 ELSE v

\* if ( !IsFinite( *i ) || *i < 0 ) *i = 0;
Sanitize(v) == IF ~IsFinite(v) \/ v < 0 THEN 0 ELSE v

\* The integer branch: target.Assign( img ); target /= max.  Assign converts
\* samples to the target's pixel traits; the library is not part of the
\* sources, so both readings are kept: the codes are copied as they are
\* (rescales = FALSE) or mapped to [0,1] (rescales = TRUE) before the
\* division by max.
NormalizeIntegerSample(fmt, code, rescales) ==
    LET max == IF fmt = "UInt8" THEN UInt8Max ELSE UInt16Max
        once == MulDiv(code, One, max)      \* a UInt32 code is in UInt32Unit
    IN  IF ~rescales THEN once
        ELSE IF fmt = "UInt32" THEN (once \div UInt16Max) \div UInt32Unit
        ELSE once \div max

\* The images NormalizeInput can leave in target; {} when it throws
\* (complex samples).
NormalizeInput(source) ==
    IF source.fmt \in ComplexFormats THEN {}
    ELSE LET scaled ==
               IF source.fmt \in FloatFormats
               THEN {MapSamples(source,
                        LAMBDA v : DivideFloatSample(v, FloatDivisor(m))) :
                     m \in MaximumSampleValueOutcomes(source)}
               ELSE {MapSamples(source,
                        LAMBDA v : NormalizeIntegerSample(source.fmt, v, r)) :
                     r \in BOOLEAN}
         IN  {Truncate(MapSamples(s, Sanitize), 0, One) : s \in scaled}

(***************************************************************************)
(* Sensor profiles (s_sensorProfilesData): the r, g, b weights in          *)
(* 1/WeightUnit, in table order (index 0 is Rec.709).                      *)
(***************************************************************************)
WeightUnit == 100 * 100

SensorProfiles ==
    <<
      <<2126, 7152, 722>>, <<2944, 5021, 2035>>, <<2987, 5001, 2013>>,
      <<3015, 5050, 1935>>, <<3040, 5010, 1950>>, <<3068, 5008, 1925>>,
      <<2910, 5072, 2018>>, <<2880, 5100, 2020>>, <<3431, 4822, 1747>>,
      <<3430, 4821, 1749>>, <<3426, 4825, 1750>>, <<3333, 4866, 1801>>,
      <<3410, 4840, 1750>>, <<3150, 4950, 1900>>, <<2967, 4983, 2050>>,
      <<2346, 5206, 2448>>, <<3402, 4765, 1833>>, <<2600, 5200, 2200>>,
      <<2450, 5350, 2200>>, <<2650, 5100, 2250>>, <<2500, 5300, 2200>>,
      <<2800, 5100, 2100>>, <<2650, 5250, 2100>>, <<3333, 4866, 1801>>,
      <<2928, 5053, 2019>>, <<5000, 2500, 2500>>, <<3333, 3400, 3267>>
    >>

g_numSensorProfiles == Len(SensorProfiles)

\* rw*r + gw*g + bw*b, the exact sum rounded once.
WeightedSum(w, r, g, b) ==
    LET x == MulDivQR(w[1], r, WeightUnit)
        y == MulDivQR(w[2], g, WeightUnit)
        z == MulDivQR(w[3], b, WeightUnit)
    IN  x[1] + y[1] + z[1] + ((x[2] + y[2] + z[2]) \div WeightUnit)

(***************************************************************************)
(* Anchor estimator                                                        *)
(***************************************************************************)
AnchorOffset == One \div 4000          \* 0.00025
RGBCapacity == 500000
MonoCapacity == 200000
HistCapacity == 2000000

\* Mutant of CalculateAnchor: the result is not floored at 0.
CalculateAnchor_NoFloor(img) ==
    IF img.nch = 3
    THEN Min(One, SetMin({SubsamplePercentile(img.px[c], NumberOfPixels(img),
                              1, PctUnit \div 2) : c \in 1..3})) - AnchorOffset
    ELSE SubsamplePercentile(img.px[1], NumberOfPixels(img), 1, PctUnit \div 2)
           - AnchorOffset

\* Mutant of CalculateAnchor: the offset 0.00025 is not subtracted.
CalculateAnchor_NoOffset(img) ==
    IF img.nch = 3
    THEN Max(0, Min(One, SetMin({SubsamplePercentile(img.px[c],
                 NumberOfPixels(img), 1, PctUnit \div 2) : c \in 1..3})))
    ELSE Max(0, SubsamplePercentile(img.px[1], NumberOfPixels(img), 1,
                                    PctUnit \div 2))

CalculateAnchor(img) ==
    LET nPixels   == NumberOfPixels(img)
        totalSize == nPixels * Max(1, img.nch)
    IN  IF img.nch = 3
        THEN LET stride == Max(1, totalSize \div RGBCapacity)
                 floors == {SubsamplePercentile(img.px[c], nPixels, stride,
                                                PctUnit \div 2) : c \in 1..3}
                 minFloor == Min(One, SetMin(floors))
             IN  Max(0, minFloor - AnchorOffset)
        ELSE LET stride == Max(1, totalSize \div MonoCapacity)
                 floor  == SubsamplePercentile(img.px[1], nPixels, stride,
                                               PctUnit \div 2)
             IN  Max(0, floor - AnchorOffset)

\* The luminance CalculateAnchorAdaptive analyses (no anchor subtraction).
AnalysisLuma(img, profile) ==
    IF img.nch = 3
    THEN [i \in 1..NumberOfPixels(img) |->
            WeightedSum(profile, img.px[1][i], img.px[2][i], img.px[3][i])]
    ELSE img.px[1]

HistBins == 65536
SmoothWindow == 50
SearchStart == 100

\* int( Min( v, 0.999999f ) * bins ), kept inside [0, bins).
HistBin(v) ==
    Max(0, Min(MulDiv(Min(v, One - 1), HistBins, One), HistBins - 1))

\* SmoothHistogramBox50 at bin i, times the window: the number of samples
\* whose bin j has i - half <= j <= i - half + window - 1.
SmoothHistogramBox50(binOf, i) ==
    LET half == SmoothWindow \div 2
    IN  Cardinality({k \in 1..Len(binOf) :
            /\ i - half <= binOf[k]
            /\ binOf[k] <= i - half + SmoothWindow - 1})

\* The retained subsample: every stride-th sample of the luminance, kept
\* within [0,1].
AdaptiveSample(img, profile) ==
    LET luma   == AnalysisLuma(img, profile)
        stride == Max(1, Len(luma) \div HistCapacity)
    IN  [j \in 1..((Len(luma) + stride - 1) \div stride) |->
            Max(0, Min(luma[(j - 1) * stride + 1], One))]

\* The scans run over all bins in the code.  The smoothed histogram rises
\* only at a bin b - (window - half - 1) for a sample bin b: it is positive
\* somewhere below SearchStart iff a sample bin is below
\* SearchStart + (window - half - 1), and the first maximum from searchStart
\* is searchStart or a bin where it rises.
PeakIndex(binOf) ==
    LET lead   == SmoothWindow - SmoothWindow \div 2 - 1
        rise   == {binOf[k] - lead : k \in 1..Len(binOf)}
        maxBefore   == IF \E k \in 1..Len(binOf) :
                              binOf[k] < Min(HistBins, SearchStart) + lead
                       THEN 1 ELSE 0
        searchStart == IF SearchStart >= HistBins \/ maxBefore > 0
                       THEN 0 ELSE SearchStart
        peaks   == {searchStart} \cup {i \in rise : i > searchStart}
        peakVal == SetMax({SmoothHistogramBox50(binOf, i) : i \in peaks})
    IN  SetMin({i \in peaks : SmoothHistogramBox50(binOf, i) = peakVal})

\* Mutant of AnchorIndex: targetVal is 0.6 of the peak value.
AnchorIndex_LooseTarget(binOf, peakIdx) ==
    LET lead  == SmoothWindow - SmoothWindow \div 2 - 1
        lasts == {i \in {peakIdx - 1} \cup
                          {binOf[k] - lead - 1 : k \in 1..Len(binOf)} :
                    /\ 0 <= i /\ i < peakIdx
                    /\ 100 * SmoothHistogramBox50(binOf, i)
                         < 60 * SmoothHistogramBox50(binOf, peakIdx)}
    IN  IF lasts = {} THEN -1 ELSE SetMax(lasts)

\* anchorIdx: the last bin before the peak with histSmooth[i] < peakVal *
\* 0.06, or -1.  It is peakIdx - 1 or the bin before a rise.
AnchorIndex(binOf, peakIdx) ==
    LET lead  == SmoothWindow - SmoothWindow \div 2 - 1
        lasts == {i \in {peakIdx - 1} \cup
                          {binOf[k] - lead - 1 : k \in 1..Len(binOf)} :
                    /\ 0 <= i /\ i < peakIdx
                    /\ 100 * SmoothHistogramBox50(binOf, i)
                         < 6 * SmoothHistogramBox50(binOf, peakIdx)}
    IN  IF lasts = {} THEN -1 ELSE SetMax(lasts)

\* The locals of CalculateAnchorAdaptive: the subsample, the bin of each of
\* its samples, peakIdx and anchorIdx.
AdaptiveLocals(img, profile) ==
    LET sample == AdaptiveSample(img, profile)
        binOf  == [k \in 1..Len(sample) |-> HistBin(sample[k])]
        peak   == PeakIndex(binOf)
    IN  [sample |-> sample, binOf |-> binOf, peakIdx |-> peak,
         anchorIdx |-> AnchorIndex(binOf, peak)]

CalculateAnchorAdaptive(img, profile) ==
    LET locals == AdaptiveLocals(img, profile)
    IN  Max(0, IF locals.anchorIdx >= 0
               THEN MulDiv(locals.anchorIdx, One, HistBins)
               ELSE PercentileInPlace(locals.sample, PctUnit \div 2))

(***************************************************************************)
(* Hyperbolic transfer                                                     *)
(***************************************************************************)
Tenth == One \div 10

\* num / den for den # 0.  A quotient of magnitude 2 or more is kept as 2
\* (-2): every use is followed by a truncation to a range inside [-2, 2].
Quotient(num, den) ==
    LET n == IF den < 0 THEN -num ELSE num
        d == Abs(den)
    IN  IF n >= 2 * d THEN 2 * One
        ELSE IF -n >= 2 * d THEN -2 * One
        ELSE MulDiv(n, One, d)

\* (term1 - term2) / normFactor from the three arcsinh terms.
StretchOf(term1, term2, nf) ==
    Quotient(term1 - term2, IF nf = 0 THEN 1 ELSE nf)      \* 1e-6

\* Mutant of HyperbolicSample: term2 is not subtracted in the normalization
\* factor.
HyperbolicSample_NormNoTerm2(val, D, b, SP) ==
    StretchOf(ArcSinhAffine(WideMax(D, WideOf(Tenth)), val - SP, Max(b, Tenth)),
              ArcSinh(Max(b, Tenth)),
              ArcSinhAffine(WideMax(D, WideOf(Tenth)), One - SP, Max(b, Tenth)))

\* Mutant of StretchTerms: the offset of the sample from SP is taken in
\* magnitude.
StretchTerms_Magnitude(val, D, b, SP) ==
    [x \in {val - SP, 0, One - SP} |->
        ArcSinhAffine(WideMax(D, WideOf(Tenth)), Abs(x), Max(b, Tenth))]

\* ArcSinh( D * (x - SP) + b ) for x = val, SP and 1, with D = Max( D, 0.1 )
\* and b = Max( b, 0.1 ); D is wide.
StretchTerms(val, D, b, SP) ==
    [x \in {val - SP, 0, One - SP} |->
        ArcSinhAffine(WideMax(D, WideOf(Tenth)), x, Max(b, Tenth))]

NormalizedTerm(t, x, x1) == StretchOf(t[x], t[0], t[x1] - t[0])

\* One sample of HyperbolicStretch, before the final truncation.
HyperbolicSample(val, D, b, SP) ==
    NormalizedTerm(StretchTerms(val, D, b, SP), val - SP, One - SP)

\* Mutant of HyperbolicStretch: the result is not truncated.
HyperbolicStretch_NoTruncate(target, D, b, SP) ==
    MapSamples(target, LAMBDA v : HyperbolicSample(v, D, b, SP))

HyperbolicStretch(target, D, b, SP) ==
    Truncate(MapSamples(target, LAMBDA v : HyperbolicSample(v, D, b, SP)),
             0, One)

(***************************************************************************)
(* SolveLogD                                                               *)
(***************************************************************************)
\* ImageStatistics::Median over the samples of the image: the middle of the
\* sorted samples, the mean of the two middle ones for an even count.
MedianOfSorted(s) ==
    IF Len(s) % 2 = 1 THEN s[(Len(s) + 1) \div 2]
    ELSE (s[Len(s) \div 2] + s[Len(s) \div 2 + 1]) \div 2

Median(img) == MedianOfSorted(SortAscending(img.px[1]))

SolveIterations == 40
DefaultLogD == 2 * One
HighLogD == 7 * One
SolveTolerance == One \div 10000       \* 0.0001

\* ArcSinh( midD * x + bVal ) for x = medianIn, 0 and 1.
SolveTerms(midD, medianIn, bVal) ==
    [x \in {medianIn, 0, One} |-> ArcSinhAffine(midD, x, bVal)]

\* The stretch simulated on the median for D = Pow10( midLog ).
TestVal(midLog, medianIn, bVal) ==
    NormalizedTerm(SolveTerms(Pow10(midLog), medianIn, bVal), medianIn, One)

\* Mutant of BisectionStep: the early exit accepts a simulated value within
\* 0.01 of the target.
BisectionStep_Loose(f, midLog, testVal, targetMedian) ==
    IF Abs(testVal - targetMedian) < One \div 100
    THEN [f EXCEPT !.bestLogD = midLog, !.pc = "return"]
    ELSE IF testVal < targetMedian
    THEN [f EXCEPT !.lowLog = midLog, !.iter = @ + 1]
    ELSE [f EXCEPT !.highLog = midLog, !.iter = @ + 1]

\* Mutant of BisectionStep: every midpoint tried is kept as bestLogD.
BisectionStep_KeepsLast(f, midLog, testVal, targetMedian) ==
    IF Abs(testVal - targetMedian) < SolveTolerance
    THEN [f EXCEPT !.bestLogD = midLog, !.pc = "return"]
    ELSE IF testVal < targetMedian
    THEN [f EXCEPT !.bestLogD = midLog, !.lowLog = midLog, !.iter = @ + 1]
    ELSE [f EXCEPT !.bestLogD = midLog, !.highLog = midLog, !.iter = @ + 1]

\* The body of the loop for the midpoint midLog and its simulated value.
BisectionStep(f, midLog, testVal, targetMedian) ==
    IF Abs(testVal - targetMedian) < SolveTolerance
    THEN [f EXCEPT !.bestLogD = midLog, !.pc = "return"]        \* break
    ELSE IF testVal < targetMedian
    THEN [f EXCEPT !.lowLog = midLog, !.iter = @ + 1]
    ELSE [f EXCEPT !.highLog = midLog, !.iter = @ + 1]

MidLog(f) == (f.lowLog + f.highLog) \div 2

\* The locals of SolveLogD after the median is taken.  medianIn < 1e-9 is
\* medianIn <= 0 at six decimals.
SolveEntry(medianIn) ==
    [medianIn |-> medianIn, lowLog |-> 0, highLog |-> HighLogD,
     bestLogD |-> DefaultLogD, iter |-> 0,
     pc |-> IF medianIn <= 0 THEN "return" ELSE "loop"]

(***************************************************************************)
(* Pow on [0, 1]                                                           *)
(***************************************************************************)
\* -ln(x) for 0 < x <= One, doubling x into (1/2, 1].
RECURSIVE NegLn(_)
NegLn(x) ==
    IF 2 * x <= One THEN Ln2 + NegLn(2 * x) ELSE LnSeries(Div(One, x))

RECURSIVE HalveTimes(_, _)
HalveTimes(e, n) ==
    IF e = 0 \/ n = 0 THEN e ELSE HalveTimes(e \div 2, n - 1)

\* exp(-y) for y >= 0: exp(-(y mod ln 2)) halved y div ln 2 times.
ExpNeg(y) == HalveTimes(Div(One, Exp(y % Ln2)), y \div Ln2)

\* Pow( x, y ) for 0 <= x <= 1 and y >= 0.
Pow(x, y) ==
    IF y = 0 \/ x >= One THEN One
    ELSE IF x <= 0 THEN 0
    ELSE ExpNeg(Mul(y, NegLn(x)))

(***************************************************************************)
(* ExtractLuminance                                                        *)
(***************************************************************************)
\* A one-channel Image of the geometry of img.
LumaImage(img, l) ==
    [fmt |-> "Float32", width |-> img.width, height |-> img.height,
     nch |-> 1, px |-> <<l>>]

\* Assign, Truncate( anchor, 1 ), -= anchor.
SubtractAnchor(img, anchor) ==
    MapSamples(Truncate(img, anchor, One), LAMBDA v : v - anchor)

ExtractLuminance(rgb, anchor, profile) ==
    IF rgb.nch = 3
    THEN LumaImage(rgb, [i \in 1..NumberOfPixels(rgb) |->
             WeightedSum(profile, Max(0, rgb.px[1][i] - anchor),
                                  Max(0, rgb.px[2][i] - anchor),
                                  Max(0, rgb.px[3][i] - anchor))])
    ELSE SubtractAnchor(rgb, anchor)

(***************************************************************************)
(* Smart Max: the brightest sample and its 3x3 neighbourhood               *)
(***************************************************************************)
\* What LocateMaximumSampleValue may report: a pixel holding the maximum
\* sample (which one, among several, is the library's choice).
MaximumPositions(img) ==
    {i \in 1..NumberOfPixels(img) :
        \E c \in 1..img.nch : img.px[c][i] = SetMax(AllSamples(img))}

\* The pixels (x, y) with x0 <= x < x1 and y0 <= y < y1 around pixel p.
Neighbourhood(img, p) ==
    LET x == (p - 1) % img.width
        y == (p - 1) \div img.width
    IN  {yy * img.width + xx + 1 :
            xx \in Max(0, x - 1)..(Min(img.width, x + 2) - 1),
            yy \in Max(0, y - 1)..(Min(img.height, y + 2) - 1)}

\* maxNeighbor: the largest sample of channel 0 below absMax around p.
MaxNeighbor(img, p, absMax) ==
    SetMax({0} \cup {img.px[1][q] : q \in
                        {n \in Neighbourhood(img, p) : img.px[1][n] < absMax}})

\* maxNeighbor >= absMax * 0.20, tested only when absMax > 0.001.
HasBrightNeighbor(img, p, absMax) ==
    absMax > One \div Kilo /\ 5 * MaxNeighbor(img, p, absMax) >= absMax

(***************************************************************************)
(* ApplyLinearExpansion                                                    *)
(***************************************************************************)
ExpansionCapacity == 500000
ExpansionFloor == One \div Kilo        \* factor <= 0.001f: no expansion
LowPct == 1                            \* 0.001 %
HighPct == Pct100 - 1                  \* 99.999 %

\* The sample vector: every stride-th sample of every channel in turn.
StridedSamples(img, stride) ==
    LET m == (NumberOfPixels(img) + stride - 1) \div stride
    IN  [k \in 1..(img.nch * m) |->
            img.px[(k - 1) \div m + 1][((k - 1) % m) * stride + 1]]

\* Max( 0, Min( x / range, 1 ) ) for range > 0.
UnitRatio(x, range) ==
    IF x <= 0 THEN 0 ELSE IF x >= range THEN One ELSE Div(x, range)

NoExpansionStats(low, high) ==
    [pctLow |-> 0, pctHigh |-> 0, low |-> low, high |-> high]

\* Mutant of ExpansionStats: samples equal to a bound are not counted.
ExpansionStats_Strict(target, low, high) ==
    LET total == NumberOfPixels(target) * target.nch
        at(P(_)) == Cardinality({<<c, i>> \in
                        (1..target.nch) \X (1..NumberOfPixels(target)) :
                            P(target.px[c][i])})
    IN  [pctLow  |-> MulDiv(at(LAMBDA v : v < low), Pct100, total),
         pctHigh |-> MulDiv(at(LAMBDA v : v > high), Pct100, total),
         low |-> low, high |-> high]

\* The diagnostics: the share of samples at or beyond the bounds, in
\* thousandths of a percent.
ExpansionStats(target, low, high) ==
    LET total == NumberOfPixels(target) * target.nch
        at(P(_)) == Cardinality({<<c, i>> \in
                        (1..target.nch) \X (1..NumberOfPixels(target)) :
                            P(target.px[c][i])})
    IN  [pctLow  |-> MulDiv(at(LAMBDA v : v <= low), Pct100, total),
         pctHigh |-> MulDiv(at(LAMBDA v : v >= high), Pct100, total),
         low |-> low, high |-> high]

\* Mutant of Expand: only high < low returns early.
Expand_StrictOrder(target, factor, low, high) ==
    IF high < low
    THEN [target |-> target, stats |-> NoExpansionStats(low, high)]
    ELSE [target |-> MapSamples(target, LAMBDA v :
                        Mul(v, One - factor)
                          + Mul(UnitRatio(v - low, high - low), factor)),
          stats  |-> ExpansionStats(target, low, high)]

\* The blend of every sample with its normalization between low and high.
Expand(target, factor, low, high) ==
    IF high <= low
    THEN [target |-> target, stats |-> NoExpansionStats(low, high)]
    ELSE [target |-> MapSamples(target, LAMBDA v :
                        Mul(v, One - factor)
                          + Mul(UnitRatio(v - low, high - low), factor)),
          stats  |-> ExpansionStats(target, low, high)]

\* Mutant of UseAbsoluteMax: a neighbour equal to the maximum counts as a
\* bright neighbour.
UseAbsoluteMax_CountsEqual(target, maxPos) ==
    /\ SetMax(AllSamples(target)) > One \div Kilo
    /\ \E n \in Neighbourhood(target, maxPos) :
          5 * target.px[1][n] >= SetMax(AllSamples(target))

\* useAbsoluteMax: false unless absMax > 0.001 and the brightest pixel has a
\* bright neighbour.
UseAbsoluteMax(target, maxPos) ==
    HasBrightNeighbor(target, maxPos, SetMax(AllSamples(target)))

\* The upper bound: the absolute maximum when it has a bright neighbour,
\* the 99.999th percentile otherwise.
ExpansionHigh(target, sample, maxPos) ==
    IF UseAbsoluteMax(target, maxPos)
    THEN SetMax(AllSamples(target))
    ELSE PercentileFromSorted(SortAscending(sample), HighPct)

\* Mutant of ApplyLinearExpansion: only a factor below 0.001 returns early.
ApplyLinearExpansion_StrictFloor(target, factor, maxPos) ==
    IF factor < ExpansionFloor
    THEN [target |-> target, stats |-> NoExpansionStats(0, 0)]
    ELSE LET sample == StridedSamples(target,
                 Max(1, NumberOfPixels(target) \div ExpansionCapacity))
         IN  Expand(target, Max(0, Min(factor, One)),
                    PercentileInPlace(sample, LowPct),
                    ExpansionHigh(target, sample, maxPos))

\* target and *diagnostics after the call, for the position maxPos that
\* LocateMaximumSampleValue reports.
ApplyLinearExpansion(target, factor, maxPos) ==
    IF factor <= ExpansionFloor
    THEN [target |-> target, stats |-> NoExpansionStats(0, 0)]
    ELSE LET sample == StridedSamples(target,
                 Max(1, NumberOfPixels(target) \div ExpansionCapacity))
         IN  Expand(target, Max(0, Min(factor, One)),
                    PercentileInPlace(sample, LowPct),
                    ExpansionHigh(target, sample, maxPos))

(***************************************************************************)
(* EstimateStarPressure                                                    *)
(***************************************************************************)
StarCapacity == 300000
MinStarSamples == 100

\* The values above 1e-7 (above 0 at six decimals) among data[0],
\* data[stride], ..., in image order.
StarSample(luma) ==
    SelectSeq(Subsample(luma.px[1], NumberOfPixels(luma),
                        Max(1, NumberOfPixels(luma) \div StarCapacity)),
              LAMBDA v : v > 0)

\* Mutant of RankIndex: one digit of the rank is dropped (0.99 for 0.999).
RankIndex_Coarse(size, num, den) == (size * (num \div 10)) \div (den \div 10)

\* size_t( sample.size() * 0.999 ), for 0.999 = num / den.
RankIndex(size, num, den) == (size * num) \div den

\* Max( 0, Min( x, 1 ) ).
Clamp01(x) == Max(0, Min(x, One))

\* The locals of EstimateStarPressure past the two early returns, for the
\* sorted sample (indices are the code's, from 0).
StarLocals(sorted) ==
    LET idx999  == RankIndex(Len(sorted), 999, 1000)
        idx9999 == RankIndex(Len(sorted), 9999, 10000)
        p999    == sorted[idx999 + 1]
        p9999   == sorted[idx9999 + 1]
        countBright == Cardinality({i \in 1..Len(sorted) : sorted[i] > p999})
    IN  [size |-> Len(sorted), idx999 |-> idx999, idx9999 |-> idx9999,
         countBright |-> countBright,
         pTerm |-> Clamp01((Div(p9999, p999) - One) \div 4),
         fTerm |-> Clamp01(MulDiv(200 * countBright, One, Len(sorted)))]

\* 0.7 * pTerm + 0.3 * fTerm, clamped to [0, 1].
StarPressureOf(locals) ==
    Clamp01(MulDiv(7, locals.pTerm, 10) + MulDiv(3, locals.fTerm, 10))

EstimateStarPressure(luma) ==
    IF NumberOfPixels(luma) = 0 THEN 0
    ELSE IF Len(StarSample(luma)) < MinStarSamples THEN 0
    ELSE StarPressureOf(StarLocals(SortSeq(StarSample(luma),
                                           LAMBDA a, b : a < b)))

(***************************************************************************)
(* ApplyMTF, AdaptiveOutputScaling, ApplyReadyToUseSoftClip                *)
(***************************************************************************)
\* term1 / term2 when term2 # 0, else 0.
MTFSample(v, m) ==
    IF Mul(2 * m - One, v) - m # 0
    THEN Quotient(Mul(m - One, v), Mul(2 * m - One, v) - m)
    ELSE 0

ApplyMTF(target, m) ==
    Truncate(MapSamples(target, LAMBDA v : MTFSample(v, m)), 0, One)

\* The luminance AdaptiveOutputScaling measures: the weighted sum of the
\* channels, or the image itself.
ScalingLuma(target, profile) ==
    IF target.nch = 3
    THEN LumaImage(target, [i \in 1..NumberOfPixels(target) |->
             WeightedSum(profile, target.px[1][i], target.px[2][i],
                                  target.px[3][i])])
    ELSE target

RECURSIVE SumSeq(_, _)
SumSeq(s, n) == IF n = 0 THEN 0 ELSE s[n] + SumSeq(s, n - 1)

\* sqrt( sum (x - mean)^2 / (n - 1) ), 0 for n < 2.
StdDevAbout(s, mean) ==
    IF Len(s) < 2 THEN 0
    ELSE Sqrt(SumSeq([k \in 1..Len(s) |-> Square(s[k] - mean)], Len(s))
                \div (Len(s) - 1))

\* ImageStatistics::StdDev of a one-channel image.
StdDev(img) ==
    StdDevAbout(img.px[1],
                SumSeq(img.px[1], NumberOfPixels(img)) \div NumberOfPixels(img))

Pedestal == One \div Kilo              \* PEDESTAL = 0.001
ContrastSpan == (98 * One) \div 100 - Pedestal      \* 0.98 - PEDESTAL
PhysicalSpan == One - Pedestal                      \* 1.0 - PEDESTAL
CeilPct == 99 * PctUnit
ScalingRGBCapacity == 500000
ScalingMonoCapacity == 200000
FloorSigmas == (27 * One) \div 10      \* 2.7

\* globalFloor = Max( minL, medianL - 2.7 * stdL ).
GlobalFloor(luma) ==
    Max(SetMin(AllSamples(luma)), Median(luma) - Mul(FloorSigmas, StdDev(luma)))

\* The 99th percentile: the largest over the three channels of the target,
\* or that of the luminance.
CeilPercentile(target, luma) ==
    IF target.nch = 3
    THEN SetMax({SubsamplePercentile(target.px[c], NumberOfPixels(target),
                    Max(1, NumberOfPixels(target) \div ScalingRGBCapacity),
                    CeilPct) : c \in 1..3})
    ELSE SubsamplePercentile(luma.px[1], NumberOfPixels(luma),
                    Max(1, NumberOfPixels(luma) \div ScalingMonoCapacity),
                    CeilPct)

\* softCeil = Max( globalFloor + 1e-6, Min( softCeil, 1.0 ) ).
SoftCeil(target, luma, globalFloor) ==
    Max(globalFloor + 1, Min(CeilPercentile(target, luma), One))

\* finalScale as the fraction span / width: scaleContrast, or the smaller
\* of it and scalePhysicalLimit when the maximum is a valid physical one
\* (absMax is raised to softCeil + 1e-6 when it is not above softCeil).
FinalScale(validPhysicalMax, absMax, softCeil, globalFloor) ==
    IF validPhysicalMax
       /\ WideLess(MulQR(PhysicalSpan, softCeil - globalFloor),
                   MulQR(ContrastSpan, Max(absMax, softCeil + 1) - globalFloor))
    THEN <<PhysicalSpan, Max(absMax, softCeil + 1) - globalFloor>>
    ELSE <<ContrastSpan, softCeil - globalFloor>>

\* Max( 0, Min( x * scale + PEDESTAL, 1 ) ): a product beyond 3 in size is
\* kept as 3, which the clamp removes.
ScaledSample(x, scale) ==
    Max(0, Min(One,
        Pedestal + (IF Abs(x) >= 3 * scale[2]
                    THEN (IF x < 0 THEN -3 * One ELSE 3 * One)
                    ELSE MulDiv(x, scale[1], scale[2]))))

\* The target after the linear scaling about globalFloor.
ScaleAbout(target, globalFloor, scale) ==
    MapSamples(target, LAMBDA v : ScaledSample(v - globalFloor, scale))

\* m = currentBg*(targetBg - 1) / (currentBg*(2*targetBg - 1) - targetBg).
Midtone(currentBg, targetBg) ==
    Quotient(Mul(currentBg, targetBg - One),
             Mul(currentBg, 2 * targetBg - One) - targetBg)

\* Mutant of ToBackground: the MTF is applied from a difference of 1e-3 on.
ToBackground_FromDeadband(target, currentBg, targetBg) ==
    IF currentBg > 0 /\ currentBg < One /\ Abs(currentBg - targetBg) >= One \div Kilo
    THEN ApplyMTF(target, Midtone(currentBg, targetBg))
    ELSE target

\* The MTF toward targetBg, applied when the background currentBg is inside
\* (0, 1) and more than 1e-3 away from it.
ToBackground(target, currentBg, targetBg) ==
    IF currentBg > 0 /\ currentBg < One /\ Abs(currentBg - targetBg) > One \div Kilo
    THEN ApplyMTF(target, Midtone(currentBg, targetBg))
    ELSE target

\* Mutant of ValidPhysicalMax: a neighbour is bright from 25 % of the
\* maximum.
ValidPhysicalMax_QuarterShare(luma, maxPos) ==
    ~(SetMax(AllSamples(luma)) > One \div Kilo
        /\ 4 * MaxNeighbor(luma, maxPos, SetMax(AllSamples(luma)))
             < SetMax(AllSamples(luma)))

\* validPhysicalMax: true unless absMax > 0.001 and the brightest pixel of
\* the luminance has no bright neighbour.
ValidPhysicalMax(luma, maxPos) ==
    ~(SetMax(AllSamples(luma)) > One \div Kilo
        /\ ~HasBrightNeighbor(luma, maxPos, SetMax(AllSamples(luma))))

\* The scaling stage for the luminance luma and its floor.
ScaleFrom(target, luma, maxPos, globalFloor) ==
    ScaleAbout(target, globalFloor,
        FinalScale(ValidPhysicalMax(luma, maxPos),
                   SetMax(AllSamples(luma)),
                   SoftCeil(target, luma, globalFloor), globalFloor))

BackgroundOf(scaled, profile, targetBg) ==
    ToBackground(scaled, Median(ScalingLuma(scaled, profile)), targetBg)

\* target after the call, for the position maxPos that
\* LocateMaximumSampleValue reports on the luminance.
AdaptiveOutputScaling(target, profile, targetBg, maxPos) ==
    BackgroundOf(ScaleFrom(target, ScalingLuma(target, profile), maxPos,
                           GlobalFloor(ScalingLuma(target, profile))),
                 profile, targetBg)

\* The locals of AdaptiveOutputScaling: the smart-max decision, the target
\* after the linear scaling, its luminance median and the midtone parameter
\* solved from it (the solve's denominator and its quotient).
ScalingLocals(target, profile, targetBg, maxPos) ==
    LET luma   == ScalingLuma(target, profile)
        scaled == ScaleFrom(target, luma, maxPos, GlobalFloor(luma))
        currentBg == Median(ScalingLuma(scaled, profile))
        denominator == Mul(currentBg, 2 * targetBg - One) - targetBg
    IN  [validPhysicalMax |-> ValidPhysicalMax(luma, maxPos),
         scaled      |-> scaled,
         targetBg    |-> targetBg,
         currentBg   |-> currentBg,
         denominator |-> denominator,
         m           |-> Midtone(currentBg, targetBg)]

\* One sample above the threshold: threshF + (1 - threshF) * soft.
SoftClipSample(v, threshold, rolloff) ==
    IF v > threshold
    THEN threshold + Mul(One - threshold,
             One - Pow(One - UnitRatio(v - threshold, One - threshold),
                       rolloff))
    ELSE v

ApplyReadyToUseSoftClip(target, threshold, rolloff) ==
    Truncate(MapSamples(target,
                 LAMBDA v : SoftClipSample(v, threshold, rolloff)), 0, One)

(***************************************************************************)
(* ReconstructColor                                                        *)
(***************************************************************************)
ColorPedestal == One \div 200          \* rgb *= 0.995f; rgb += 0.005f
ShadowFloor == One \div 100            \* shadowConvergence > 0.01

\* orig / (origR + origG + origB + epsilon).
ColorRatio(orig, sum) == IF sum <= 0 THEN 0 ELSE Div(orig, sum)

\* L * (ratio * (1 - k) + k) for k = Pow( L, colorConvergence ).
VectorSample(L, ratio, k) == Mul(L, Mul(ratio, One - k) + k)

\* gripMap: colorGrip, damped by Pow( L, shadowConvergence ) when that
\* exceeds 0.01.
GripMap(L, colorGrip, shadowConvergence) ==
    IF shadowConvergence > ShadowFloor
    THEN Mul(colorGrip, Pow(L, shadowConvergence))
    ELSE colorGrip

\* out * gripMap + scalar * (1 - gripMap).
Blend(out, scalar, gripMap) == Mul(out, gripMap) + Mul(scalar, One - gripMap)

\* The vector-preserving colour of every sample.
VectorColor(luma, originalRGB, colorConvergence) ==
    [c \in 1..3 |-> [i \in 1..NumberOfPixels(luma) |->
        VectorSample(luma.px[1][i],
                     ColorRatio(originalRGB.px[c][i],
                                originalRGB.px[1][i] + originalRGB.px[2][i]
                                  + originalRGB.px[3][i]),
                     Pow(luma.px[1][i], colorConvergence))]]

\* The hybrid blend with the scalar stretch of the original, when needed.
HybridColor(out, luma, scalar, colorGrip, shadowConvergence) ==
    [c \in 1..3 |-> [i \in 1..NumberOfPixels(luma) |->
        Blend(out[c][i], scalar.px[c][i],
              GripMap(luma.px[1][i], colorGrip, shadowConvergence))]]

\* Mutant of WithPedestal: the pedestal is added without the scaling by
\* 0.995.
WithPedestal_Unscaled(rgb, px) ==
    Truncate(MapSamples([rgb EXCEPT !.px = px],
                 LAMBDA v : v + ColorPedestal),
             0, One)

\* Mutant of WithPedestal: the pedestal is added before the scaling by
\* 0.995.
WithPedestal_ScaledAfter(rgb, px) ==
    Truncate(MapSamples([rgb EXCEPT !.px = px],
                 LAMBDA v : Mul(v + ColorPedestal, One - ColorPedestal)),
             0, One)

\* rgb *= 0.995f; rgb += 0.005f; Truncate( 0, 1 ).
WithPedestal(rgb, px) ==
    Truncate(MapSamples([rgb EXCEPT !.px = px],
                 LAMBDA v : Mul(v, One - ColorPedestal) + ColorPedestal),
             0, One)

\* rgb after the call.
ReconstructColor(rgb, luma, originalRGB, colorConvergence, colorGrip, shadowConvergence, D, b) ==
    IF rgb.nch # 3 THEN luma
    ELSE WithPedestal(rgb,
           IF colorGrip < One \/ shadowConvergence > ShadowFloor
           THEN HybridColor(VectorColor(luma, originalRGB, colorConvergence),
                            luma, HyperbolicStretch(originalRGB, D, b, 0),
                            colorGrip, shadowConvergence)
           ELSE VectorColor(luma, originalRGB, colorConvergence))

(***************************************************************************)
(* HyperMetricStretchInstance: parameters and the run of the stages        *)
(***************************************************************************)
\* The parameters after construction.
DefaultInstance ==
    [processingMode    |-> "ReadyToUse",
     sensorProfile     |-> 0,
     targetBackground  |-> One \div 5,
     logD              |-> 2 * One,
     protectB          |-> 6 * One,
     colorConvergence  |-> (7 * One) \div 2,
     colorStrategy     |-> 0,
     colorGrip         |-> One,
     shadowConvergence |-> 0,
     linearExpansion   |-> 0,
     adaptiveAnchor    |-> TRUE]

\* No ExecuteOn or Preview is running.
IdleProcess ==
    /\ inst = DefaultInstance
    /\ image = EmptyImage
    /\ stages = <<>>

\* Mutant of GetEffectiveParams: the largest reduction of the grip is 0.7.
GetEffectiveParams_DeeperGrip(I) ==
    IF I.processingMode = "ReadyToUse"
    THEN IF I.colorStrategy < 0
         THEN [grip |-> One,
               shadow |-> MulDiv(Abs(I.colorStrategy), 3 * One, 100),
               linearExp |-> 0]
         ELSE [grip |-> One - MulDiv(I.colorStrategy, (7 * One) \div 10, 100),
               shadow |-> 0,
               linearExp |-> 0]
    ELSE [grip |-> I.colorGrip, shadow |-> I.shadowConvergence,
          linearExp |-> I.linearExpansion]

\* grip, shadow and linearExp for the mode: derived from colorStrategy in
\* Ready-to-Use mode, the explicit parameters in Scientific mode.
GetEffectiveParams(I) ==
    IF I.processingMode = "ReadyToUse"
    THEN IF I.colorStrategy < 0
         THEN [grip |-> One,
               shadow |-> MulDiv(Abs(I.colorStrategy), 3 * One, 100),
               linearExp |-> 0]
         ELSE [grip |-> One - MulDiv(I.colorStrategy, (6 * One) \div 10, 100),
               shadow |-> 0,
               linearExp |-> 0]
    ELSE [grip |-> I.colorGrip, shadow |-> I.shadowConvergence,
          linearExp |-> I.linearExpansion]

\* HMSSensorProfile::NumberOfElements().
NumberOfElements == 27

\* Mutant of GetSensorProfile: the fallback is the last entry of the table.
GetSensorProfile_LastFallback(I) ==
    IF I.sensorProfile >= 0 /\ I.sensorProfile < g_numSensorProfiles
    THEN SensorProfiles[I.sensorProfile + 1]
    ELSE SensorProfiles[g_numSensorProfiles]

GetSensorProfile(I) ==
    IF I.sensorProfile >= 0 /\ I.sensorProfile < g_numSensorProfiles
    THEN SensorProfiles[I.sensorProfile + 1]
    ELSE SensorProfiles[1]

\* Mutant of IsComplexSample: only the double-precision complex type counts.
IsComplexSample_Complex64Only(img) == img.fmt = "Complex64"

\* ImageVariant::IsComplexSample.
IsComplexSample(img) == img.fmt \in ComplexFormats

WhyNotComplex == "HyperMetric Stretch cannot be executed on complex images."

\* The locals of ExecuteOn / Preview before the try block.
Locals(I) ==
    [pc        |-> "NormalizeInput",
     grip      |-> GetEffectiveParams(I).grip,
     shadow    |-> GetEffectiveParams(I).shadow,
     linearExp |-> GetEffectiveParams(I).linearExp,
     profile   |-> GetSensorProfile(I),
     D         |-> Pow10(I.logD),
     working   |-> EmptyImage,
     anchor    |-> 0,
     luma      |-> EmptyImage,
     located   |-> <<>>,
     failed    |-> "none"]

Returned == [pc |-> "done", failed |-> "none"]

\* The stage that follows HyperbolicStretch: linear expansion in Scientific
\* mode with linearExp > 0.001.
AfterStretch(mode, linearExp) ==
    IF mode = "Scientific" /\ linearExp > One \div Kilo
    THEN "ApplyLinearExpansion" ELSE "ReconstructColor"

\* Mutant of ExpansionCall: Preview, the simplified version, leaves the
\* expansion out.
ExpansionCall_PreviewUnexpanded(fn, luma, linearExp, maxPos) ==
    IF fn = "ExecuteOn"
    THEN [luma  |-> ApplyLinearExpansion(luma, linearExp, maxPos).target,
          stats |-> ApplyLinearExpansion(luma, linearExp, maxPos).stats]
    ELSE [luma |-> luma]

\* luma after the call of ApplyLinearExpansion, and the diagnostics when
\* they are asked for: ExecuteOn passes &stats (and reads stats.pctHigh for
\* a warning), Preview passes none.
ExpansionCall(fn, luma, linearExp, maxPos) ==
    IF fn = "ExecuteOn"
    THEN [luma  |-> ApplyLinearExpansion(luma, linearExp, maxPos).target,
          stats |-> ApplyLinearExpansion(luma, linearExp, maxPos).stats]
    ELSE [luma |-> ApplyLinearExpansion(luma, linearExp, maxPos).target]

\* The position LocateMaximumSampleValue reports is one of positions; it is
\* a function of the image, so a run on the image of an earlier run gets the
\* position that run got (its k-th call is the k-th of earlier).
Located(positions, earlier, k) ==
    IF k <= Len(earlier) THEN positions \cap {earlier[k]} ELSE positions

\* Mutant of AfterReconstruct: the output scaling runs in both modes.
AfterReconstruct_Always(mode) == "AdaptiveOutputScaling"

\* The step that follows ReconstructColor: output scaling in Ready-to-Use
\* mode, the write-back otherwise.
AfterReconstruct(mode) ==
    IF mode = "ReadyToUse" THEN "AdaptiveOutputScaling" ELSE "CopyImage"

\* Mutant of FailureOutcome: the catch blocks swallow the exception.
FailureOutcome_Swallowed(fn) == "true"

\* What the catch blocks do: ExecuteOn rethrows, Preview returns false.
FailureOutcome(fn) == IF fn = "ExecuteOn" THEN "throws" ELSE "false"

\* The anchored copy of working that ReconstructColor gets as originalRGB.
AnchoredRGB(working, anchor) ==
    IF working.nch = 3
    THEN MapSamples(working, LAMBDA v : Max(0, v - anchor))
    ELSE SubtractAnchor(working, anchor)

\* P::ToSample for an integer sample type of maximum code max: the nearest
\* code.
ToSample(v, max) ==
    MulDivQR(v, max, One)[1]
      + (IF 2 * MulDivQR(v, max, One)[2] >= One THEN 1 ELSE 0)

\* image.CopyImage( working ) / img.Assign( working ): the data of working
\* in the sample type of the view.  An integer view holds the nearest codes
\* (UInt32 in units of UInt32Unit); a floating-point view holds the samples
\* as they are, in 1/One.
CopyImage(view, working) ==
    [fmt |-> view.fmt, width |-> working.width, height |-> working.height,
     nch |-> working.nch,
     px |-> [c \in 1..working.nch |-> [i \in 1..NumberOfPixels(working) |->
               IF view.fmt = "UInt8" THEN ToSample(working.px[c][i], UInt8Max)
               ELSE IF view.fmt \in IntegerFormats
               THEN ToSample(working.px[c][i], UInt16Max)
               ELSE working.px[c][i]]]]

SoftClipThreshold == (98 * One) \div 100
SoftClipRolloff == 2 * One

(***************************************************************************)
(* Calls of the percentile functions.  `call' holds the function and its   *)
(* arguments (PercentileInPlace leaves its vector sorted), `ret' the       *)
(* value returned.                                                         *)
(***************************************************************************)
MaxLen == 4
SampleValues == {One, 2 * One, 3 * One, 4 * One}
PctValues == {-5 * PctUnit, 0, 1, PctUnit \div 2, 50 * PctUnit,
              Pct100 - 1, Pct100, 150 * PctUnit}
Strides == {0, 1, 2}

SeqsUpTo(S, n) == UNION {[1..k -> S] : k \in 0..n}

InitPercentile ==
    /\ call \in [fn : {"none"}, data : SeqsUpTo(SampleValues, MaxLen),
                 stride : {1}, pct : {0}]
    /\ frame = "none"
    /\ ret = "pending"
    /\ IdleProcess

CallPercentileFromSorted ==
    \E pct \in PctValues :
        /\ call.fn = "none"
        /\ IsSorted(call.data)       \* every caller passes a sorted vector
        /\ call' = [call EXCEPT !.fn = "PercentileFromSorted",
                                !.stride = 1, !.pct = pct]
        /\ ret' = PercentileFromSorted(call.data, pct)
        /\ UNCHANGED frame
        /\ UNCHANGED process

CallPercentileInPlace ==
    \E pct \in PctValues :
        /\ call.fn = "none"
        /\ call' = [fn |-> "PercentileInPlace",
                    data |-> SortAscending(call.data), stride |-> 1, pct |-> pct]
        /\ ret' = PercentileInPlace(call.data, pct)
        /\ UNCHANGED frame
        /\ UNCHANGED process

CallSubsamplePercentile ==
    \E pct \in PctValues, stride \in Strides :
        /\ call.fn = "none"
        /\ call' = [call EXCEPT !.fn = "SubsamplePercentile",
                                !.stride = stride, !.pct = pct]
        /\ ret' = SubsamplePercentile(call.data, Len(call.data), stride, pct)
        /\ UNCHANGED frame
        /\ UNCHANGED process

NextPercentile ==
    \/ CallPercentileFromSorted
    \/ CallPercentileInPlace
    \/ CallSubsamplePercentile

SpecPercentile == InitPercentile /\ [][NextPercentile]_vars

\* The percentile of the vector a call worked on, at another pct.
PercentileOfCall(q) ==
    CASE call.fn = "PercentileFromSorted" -> PercentileFromSorted(call.data, q)
      [] call.fn = "PercentileInPlace" -> PercentileInPlace(call.data, q)
      [] OTHER -> SubsamplePercentile(call.data, Len(call.data), call.stride, q)

\* C7: on a non-empty ascending vector and pct in [0,100], PercentileFromSorted
\* returns the linear interpolation between the entries bracketing the rank
\* pct/100*(n-1): the minimum at 0, the maximum at 100, 2.5 for [1,2,3,4] at 50.
C7_Interpolation ==
    (call.fn = "PercentileFromSorted" /\ call.data # <<>>
        /\ call.pct >= 0 /\ call.pct <= Pct100) =>
      LET s    == call.data
          rank == call.pct * (Len(s) - 1)            \* in 1/Pct100
          lo   == rank \div Pct100
          hi   == IF rank % Pct100 = 0 THEN lo ELSE lo + 1
          \* the samples are whole numbers of One, a multiple of Pct100
          step == (s[hi + 1] - s[lo + 1]) \div Pct100
      IN  /\ ret = s[lo + 1] + (rank - lo * Pct100) * step
          /\ call.pct = 0 => ret = s[1]
          /\ call.pct = Pct100 => ret = s[Len(s)]
          /\ (s = <<One, 2 * One, 3 * One, 4 * One>> /\ call.pct = 50 * PctUnit)
                => 2 * ret = 5 * One

C7_Witness ==
    /\ call.fn = "PercentileFromSorted"
    /\ call.data = <<One, 2 * One, 3 * One, 4 * One>>
    /\ call.pct = 50 * PctUnit
    /\ 2 * ret = 5 * One

\* C8: the percentile is non-decreasing in pct, values outside [0,100]
\* included (they are clamped); one element returns that element and an
\* empty vector returns 0, whatever pct.
C8_Monotone ==
    (call.fn # "none") =>
      /\ \A q \in PctValues :
            /\ q <= call.pct => PercentileOfCall(q) <= ret
            /\ q >= call.pct => PercentileOfCall(q) >= ret
      /\ (call.stride = 1 /\ Len(call.data) = 1) => ret = call.data[1]
      /\ call.data = <<>> => ret = 0

C8_Witness ==
    /\ call.fn = "PercentileInPlace"
    /\ Len(call.data) = 3 /\ call.data[1] < call.data[3]
    /\ call.pct < 0
    /\ ret = call.data[1]

(***************************************************************************)
(* Calls of NormalizeInput on every kind of source image.                  *)
(***************************************************************************)
NormWidth == 2

ImagesOf(fmt, nch, w, h, S) ==
    {[fmt |-> fmt, width |-> w, height |-> h, nch |-> nch, px |-> px] :
        px \in [1..nch -> [1..(w * h) -> S]]}

FloatSourceSamples ==
    {NaN, PosInf, NegInf, -(FloatUnit \div 2), 0, FloatUnit \div 2,
     (21 * FloatUnit) \div 20, 70000 * FloatUnit, 2 * One * FloatUnit}

IntegerSourceSamples(fmt) ==
    IF fmt = "UInt8" THEN {0, 128, UInt8Max} ELSE {0, 1, UInt16Max}

NormalizeSources ==
    UNION {ImagesOf(f, 1, w, 1, FloatSourceSamples) \cup
           ImagesOf(f, 3, 1, 1, FloatSourceSamples) :
               f \in FloatFormats, w \in 1..NormWidth}
    \cup UNION {ImagesOf(f, 1, w, 1, IntegerSourceSamples(f)) \cup
                ImagesOf(f, 3, 1, 1, IntegerSourceSamples(f)) :
                    f \in IntegerFormats, w \in 1..NormWidth}
    \cup UNION {ImagesOf(f, 1, 1, 1, {0}) : f \in ComplexFormats}

InitNormalize ==
    /\ call \in [fn : {"none"}, source : NormalizeSources]
    /\ frame = "none"
    /\ ret = "pending"
    /\ IdleProcess

CallNormalizeInput ==
    /\ call.fn = "none"
    /\ NormalizeInput(call.source) # {}
    /\ call' = [call EXCEPT !.fn = "NormalizeInput"]
    /\ \E target \in NormalizeInput(call.source) :
            ret' = [threw |-> FALSE, target |-> target]
    /\ UNCHANGED frame
    /\ UNCHANGED process

\* throw Error( "Complex images are not supported." ): target stays as the
\* caller constructed it.
CallNormalizeInputThrows ==
    /\ call.fn = "none"
    /\ NormalizeInput(call.source) = {}
    /\ call' = [call EXCEPT !.fn = "NormalizeInput"]
    /\ ret' = [threw |-> TRUE, target |-> EmptyImage]
    /\ UNCHANGED frame
    /\ UNCHANGED process

NextNormalize == CallNormalizeInput \/ CallNormalizeInputThrows

SpecNormalize == InitNormalize /\ [][NextNormalize]_vars

\* C4: after NormalizeInput returns on a supported (non-complex) source, every
\* sample of the target is finite and in [0,1], and every source sample that
\* was NaN, infinite or negative is 0 in the target.
C4_Normalized ==
    (call.fn = "NormalizeInput" /\ ~ret.threw) =>
      /\ call.source.fmt \notin ComplexFormats
      /\ ret.target.width = call.source.width
      /\ ret.target.nch = call.source.nch
      /\ \A c \in 1..call.source.nch, i \in 1..NumberOfPixels(call.source) :
            LET s == call.source.px[c][i]
                v == ret.target.px[c][i]
            IN  /\ IsFinite(v) /\ 0 <= v /\ v <= One
                /\ (~IsFinite(s) \/ s < 0) => v = 0

C4_Witness ==
    /\ call.fn = "NormalizeInput" /\ ~ret.threw
    /\ call.source.fmt = "Float64" /\ call.source.nch = 3
    /\ call.source.px = <<<<PosInf>>, <<NaN>>, <<70000 * FloatUnit>>>>
    /\ ret.target.px = <<<<0>>, <<0>>, <<One>>>>

\* The source with the sample i of channel c replaced by 0.
WithZeroAt(source, c, i) == [source EXCEPT !.px[c][i] = 0]

\* C24: what NormalizeInput leaves for a floating-point image does not
\* depend on its non-finite samples: with any NaN or infinite source sample
\* replaced by 0 before the call, the normalized image is the same.
C24_NonFiniteIgnored ==
    (call.fn = "NormalizeInput" /\ call.source.fmt \in FloatFormats) =>
        \A c \in 1..call.source.nch, i \in 1..NumberOfPixels(call.source) :
            ~IsFinite(call.source.px[c][i])
                => ret.target \in NormalizeInput(WithZeroAt(call.source, c, i))

(***************************************************************************)
(* Calls of the anchor estimators on normalized images.                    *)
(***************************************************************************)
AnchorWidth == 2

\* 0, a value below the statistical offset (bin 6), 0.002 and 0.0025 (bins
\* 131 and 163, inside one smoothing window), 0.5, 1.
MonoAnchorSamples ==
    {0, One \div 10000, One \div 500, One \div 400, One \div 2, One}

RGBAnchorSamples == {0, One \div 10000, One}

AnchorImages ==
    UNION {ImagesOf("Float32", 1, w, 1, MonoAnchorSamples) :
               w \in 1..(AnchorWidth + 1)}
    \cup ImagesOf("Float32", 3, 1, 1, RGBAnchorSamples)
    \cup ImagesOf("Float32", 3, 2, 1, RGBAnchorSamples)

\* Rec.709, a profile whose weights sum to 1.0001, and the narrowband one.
AnchorProfiles == {SensorProfiles[1], SensorProfiles[3], SensorProfiles[26]}

InitAnchor ==
    /\ call \in [fn : {"none"}, img : AnchorImages,
                 profile : {SensorProfiles[1]}]
    /\ frame = "none"
    /\ ret = "pending"
    /\ IdleProcess

CallCalculateAnchor ==
    /\ call.fn = "none"
    /\ call' = [call EXCEPT !.fn = "CalculateAnchor"]
    /\ ret' = CalculateAnchor(call.img)
    /\ UNCHANGED frame
    /\ UNCHANGED process

CallCalculateAnchorAdaptive ==
    \E profile \in AnchorProfiles :
        /\ call.fn = "none"
        /\ call' = [call EXCEPT !.fn = "CalculateAnchorAdaptive",
                                !.profile = profile]
        /\ frame' = AdaptiveLocals(call.img, profile)
        /\ ret' = CalculateAnchorAdaptive(call.img, profile)
        /\ UNCHANGED process

NextAnchor == CallCalculateAnchor \/ CallCalculateAnchorAdaptive

SpecAnchor == InitAnchor /\ [][NextAnchor]_vars

\* C6: the anchor returned by CalculateAnchor and by CalculateAnchorAdaptive
\* is >= 0 for every normalized image, mono or RGB, and is exactly 0 for an
\* all-zero image.
C6_AnchorNonNegative ==
    (call.fn \in {"CalculateAnchor", "CalculateAnchorAdaptive"}) =>
        /\ ret >= 0
        /\ (AllSamples(call.img) = {0}) => ret = 0

\* The adaptive estimator has run on an all-zero RGB image (the histogram
\* peak is bin 0, nothing lies before it, the percentile fallback gives 0).
C6_Witness ==
    /\ call.fn = "CalculateAnchorAdaptive"
    /\ call.img.nch = 3 /\ call.img.width = 2
    /\ AllSamples(call.img) = {0}
    /\ ret = 0

\* A mono image of 0.5 everywhere: the peak is the first bin whose window
\* reaches bin 32768 and the anchor is the bin before it.
AnchorBelowPeak ==
    /\ call.fn = "CalculateAnchorAdaptive"
    /\ call.img.nch = 1
    /\ AllSamples(call.img) = {One \div 2}
    /\ ret = MulDiv(32768 - 25, One, HistBins)

AdaptiveCalled == call.fn = "CalculateAnchorAdaptive"

\* The samples counted by the smoothed histogram at bin i.
InWindow(i) ==
    {k \in 1..Len(frame.binOf) :
        /\ i - SmoothWindow \div 2 <= frame.binOf[k]
        /\ frame.binOf[k] <= i - SmoothWindow \div 2 + SmoothWindow - 1}

\* C16: the peak search skips a zero-bin spike: when the subsample has mass
\* below bin 100 and signal at bins >= 100, the bin selected as the peak
\* counts signal samples only; near-zero signal is the peak when it is the
\* only signal.
C16_SkipsSpike ==
    AdaptiveCalled =>
        LET spike  == {k \in 1..Len(frame.binOf) : frame.binOf[k] < SearchStart}
            signal == {k \in 1..Len(frame.binOf) : frame.binOf[k] >= SearchStart}
        IN  /\ (spike # {} /\ signal # {}) =>
                  /\ InWindow(frame.peakIdx) # {}
                  /\ InWindow(frame.peakIdx) \subseteq signal
            /\ (spike # {} /\ signal = {}) =>
                  /\ InWindow(frame.peakIdx) # {}
                  /\ InWindow(frame.peakIdx) \subseteq spike

\* histSmooth[i] < targetVal, for targetVal = 0.06 * histSmooth[peakIdx].
BelowTarget(i) ==
    100 * Cardinality(InWindow(i)) < 6 * Cardinality(InWindow(frame.peakIdx))

\* C17: with peak bin p and targetVal = 0.06 * (smoothed peak value), the
\* anchor is i / 65536 for the largest bin i < p whose smoothed value is
\* below targetVal, and then lies strictly below the lower edge of the peak
\* bin; when no bin before the peak is below targetVal it is the 0.5th
\* percentile of the retained subsample; in both cases it is floored at 0.
C17_AnchorSelection ==
    AdaptiveCalled =>
        /\ ret >= 0
        /\ frame.anchorIdx >= 0 =>
              /\ frame.anchorIdx < frame.peakIdx
              /\ BelowTarget(frame.anchorIdx)
              /\ \A j \in (frame.anchorIdx + 1)..(frame.peakIdx - 1) :
                    ~BelowTarget(j)
              /\ ret = MulDiv(frame.anchorIdx, One, HistBins)
              /\ WideLess(MulQR(ret, HistBins), MulQR(frame.peakIdx, One))
        /\ frame.anchorIdx < 0 =>
              /\ \A j \in 0..(frame.peakIdx - 1) : ~BelowTarget(j)
              /\ ret = Max(0, PercentileInPlace(frame.sample, PctUnit \div 2))

\* The row 0.002, 0.0025: the peak is bin 139, where both samples are
\* counted; bins 107..138 count one sample, above targetVal; the anchor is
\* bin 106.
C17_Witness ==
    /\ AdaptiveCalled
    /\ call.img.px = <<<<One \div 500, One \div 400>>>>
    /\ frame.peakIdx = 139
    /\ frame.anchorIdx = 106
    /\ ret = MulDiv(106, One, HistBins)

(***************************************************************************)
(* Calls of HyperbolicStretch.                                             *)
(***************************************************************************)
StretchWidth == 2

StretchSamples == {0, 1, One \div Kilo, Tenth, One \div 2, One}

StretchTargets ==
    UNION {ImagesOf("Float32", 1, w, 1, StretchSamples) : w \in 1..StretchWidth}
    \cup ImagesOf("Float32", 3, 1, 1, {0, One \div 2, One})

\* D: 0 (floored to 0.1), 0.1, 1, 100, 10^3.5, 10^7.
StretchFactors ==
    {<<0, 0>>, <<0, Tenth>>, <<1, 0>>, <<100, 0>>,
     Pow10((7 * One) \div 2), <<TenTo(7), 0>>}

\* b: 0 (floored to 0.1), 0.1, 6, 15.
StretchProtects == {0, Tenth, 6 * One, 15 * One}

\* SP: 0, 0.1, and 1 (the normalization factor is then 0, replaced by 1e-6).
StretchSPs == {0, Tenth, One}

InitStretch ==
    /\ call \in [fn : {"none"}, target : StretchTargets, D : {<<1, 0>>},
                 b : {Tenth}, SP : {0}]
    /\ frame = "none"
    /\ ret = "pending"
    /\ IdleProcess

CallHyperbolicStretch ==
    \E D \in StretchFactors, b \in StretchProtects, SP \in StretchSPs :
        /\ call.fn = "none"
        /\ call' = [call EXCEPT !.fn = "HyperbolicStretch",
                                !.D = D, !.b = b, !.SP = SP]
        /\ ret' = HyperbolicStretch(call.target, D, b, SP)
        /\ UNCHANGED frame
        /\ UNCHANGED process

NextStretch == CallHyperbolicStretch

SpecStretch == InitStretch /\ [][NextStretch]_vars

\* C10: with SP = 0, for every D and b (floored at 0.1 on entry),
\* HyperbolicStretch maps a sample 0 to 0 and a sample 1 to 1, and every
\* output sample lies in [0,1].
C10_Endpoints ==
    (call.fn = "HyperbolicStretch") =>
        \A c \in 1..call.target.nch, i \in 1..NumberOfPixels(call.target) :
            LET x == call.target.px[c][i]
                y == ret.px[c][i]
            IN  /\ 0 <= y /\ y <= One
                /\ (call.SP = 0 /\ x = 0) => y = 0
                /\ (call.SP = 0 /\ x = One) => y = One

\* D = 100, b = 6, SP = 0 on the samples 0, 0.1 and 1.
C10_Witness ==
    /\ call.fn = "HyperbolicStretch"
    /\ call.D = <<100, 0>> /\ call.b = 6 * One /\ call.SP = 0
    /\ call.target.px = <<<<0, One>>>>
    /\ ret.px = <<<<0, One>>>>

\* C11: for fixed D, b and SP, HyperbolicStretch is monotonic non-decreasing
\* in the sample value: of any two samples x <= y of the image, the stretched
\* x is <= the stretched y.
C11_Monotone ==
    (call.fn = "HyperbolicStretch") =>
        \A c, d \in 1..call.target.nch :
            \A i, j \in 1..NumberOfPixels(call.target) :
                call.target.px[c][i] <= call.target.px[d][j]
                    => ret.px[c][i] <= ret.px[d][j]

\* D = 100, b = 6, SP = 0.1 on the samples 0.1 and 0.5: the first lands on
\* 0, the second strictly between 0 and 1.
C11_Witness ==
    /\ call.fn = "HyperbolicStretch"
    /\ call.D = <<100, 0>> /\ call.b = 6 * One /\ call.SP = Tenth
    /\ call.target.px = <<<<Tenth, One \div 2>>>>
    /\ ret.px[1][1] = 0
    /\ 0 < ret.px[1][2] /\ ret.px[1][2] < One

(***************************************************************************)
(* Calls of SolveLogD, one loop iteration per step.                        *)
(***************************************************************************)
SolveWidth == 2

SolveSamples == {0, One \div Kilo, Tenth, One \div 2}

SolveLumas ==
    UNION {ImagesOf("Float32", 1, w, 1, SolveSamples) : w \in 1..SolveWidth}

SolveTargets == {One \div 5, One \div 2}

SolveProtects == {Tenth, 6 * One}

InitSolve ==
    /\ call \in [fn : {"none"}, luma : SolveLumas, targetMedian : {0},
                 bVal : {0}]
    /\ frame = SolveEntry(0)
    /\ ret = "pending"
    /\ IdleProcess

CallSolveLogD ==
    \E targetMedian \in SolveTargets, bVal \in SolveProtects :
        /\ call.fn = "none"
        /\ call' = [call EXCEPT !.fn = "SolveLogD",
                                !.targetMedian = targetMedian, !.bVal = bVal]
        /\ frame' = SolveEntry(Median(call.luma))
        /\ UNCHANGED ret
        /\ UNCHANGED process

SolveIterate ==
    /\ call.fn = "SolveLogD"
    /\ frame.pc = "loop"
    /\ frame.iter < SolveIterations
    /\ frame' = BisectionStep(frame, MidLog(frame),
                              TestVal(MidLog(frame), frame.medianIn, call.bVal),
                              call.targetMedian)
    /\ UNCHANGED <<call, ret>>
    /\ UNCHANGED process

\* return bestLogD (or the early return 2.0, which bestLogD holds).
SolveReturn ==
    /\ call.fn = "SolveLogD"
    /\ \/ frame.pc = "return"
       \/ frame.pc = "loop" /\ frame.iter >= SolveIterations
    /\ ret' = frame.bestLogD
    /\ frame' = [frame EXCEPT !.pc = "done"]
    /\ UNCHANGED call
    /\ UNCHANGED process

NextSolve == CallSolveLogD \/ SolveIterate \/ SolveReturn

SpecSolve == InitSolve /\ [][NextSolve]_vars

SolveReturned == call.fn = "SolveLogD" /\ frame.pc = "done"

\* The target lies between the simulated values at the ends of the search
\* interval, logD = 0 and logD = 7.
SolveReachable ==
    /\ TestVal(0, frame.medianIn, call.bVal) <= call.targetMedian
    /\ call.targetMedian <= TestVal(HighLogD, frame.medianIn, call.bVal)

\* C9 as stated: for every luminance image with median m0 and every target
\* t, the returned logD applied to m0 through the transfer function with the
\* same b reproduces t within 1e-3, and for m0 < 1e-9 the default 2.0 is
\* returned.
C9_RoundTrip ==
    SolveReturned =>
        IF frame.medianIn <= 0 THEN ret = DefaultLogD
        ELSE Abs(TestVal(ret, frame.medianIn, call.bVal) - call.targetMedian)
                < One \div Kilo

\* C9 amended: the round trip holds whenever the target is reachable with
\* logD in [0,7] (the search then ends early on a midpoint whose simulated
\* value is within 1e-4 of t); when the 40 iterations end without such a
\* midpoint, or when m0 < 1e-9, the default 2.0 is returned.
C9_RoundTripWhenReachable ==
    SolveReturned =>
        /\ (frame.medianIn <= 0) => ret = DefaultLogD
        /\ (frame.medianIn > 0 /\ frame.iter >= SolveIterations)
              => ret = DefaultLogD
        /\ (frame.medianIn > 0 /\ frame.iter < SolveIterations)
              => Abs(TestVal(ret, frame.medianIn, call.bVal)
                       - call.targetMedian) < SolveTolerance
        /\ (frame.medianIn > 0 /\ SolveReachable)
              => /\ frame.iter < SolveIterations
                 /\ Abs(TestVal(ret, frame.medianIn, call.bVal)
                          - call.targetMedian) < One \div Kilo

\* Median 0.1, target 0.2, b = 6: the search has ended early on a logD other
\* than the default.
C9_Witness ==
    /\ SolveReturned
    /\ frame.medianIn = Tenth /\ call.targetMedian = One \div 5
    /\ call.bVal = 6 * One
    /\ SolveReachable
    /\ frame.iter < SolveIterations
    /\ ret # DefaultLogD

\* The next iteration of the loop leaves it or counts one more.
SolveAdvances ==
    LET after == BisectionStep(frame, MidLog(frame),
                     TestVal(MidLog(frame), frame.medianIn, call.bVal),
                     call.targetMedian)
    IN  after.pc = "return" \/ after.iter = frame.iter + 1

\* C23: every call of SolveLogD ends after at most 40 iterations of the
\* bisection (each iteration leaves the loop or counts one more, and the
\* count never passes 40), with 0 <= lowLog <= highLog <= 7 throughout; the
\* value returned is the default 2.0 or a midpoint of the search interval
\* inside (0,7) whose simulated median is within 1e-4 of the target, and
\* nothing else.
C23_BoundedBisection ==
    call.fn = "SolveLogD" =>
        /\ frame.iter >= 0 /\ frame.iter <= SolveIterations
        /\ frame.pc \in {"loop", "return", "done"}
        /\ (frame.pc = "loop" /\ frame.iter < SolveIterations) => SolveAdvances
        /\ 0 <= frame.lowLog
        /\ frame.lowLog <= frame.highLog
        /\ frame.highLog <= HighLogD
        /\ SolveReturned =>
              \/ ret = DefaultLogD
              \/ /\ ret = MidLog(frame)
                 /\ 0 < ret /\ ret < HighLogD
                 /\ Abs(TestVal(ret, frame.medianIn, call.bVal)
                          - call.targetMedian) < SolveTolerance

\* All 40 iterations were run without an accepted midpoint, and the default
\* was returned.
C23_Witness ==
    /\ SolveReturned
    /\ frame.medianIn > 0
    /\ frame.iter = SolveIterations
    /\ frame.lowLog <= frame.highLog
    /\ ret = DefaultLogD

(***************************************************************************)
(* Runs of the process: CanExecuteOn, ExecuteOn on the view, Preview on a  *)
(* float image.  `call' holds the entry point and the pixel data at entry, *)
(* `frame' the locals (pc names the stage about to run), `stages' the      *)
(* stages completed so far.                                                *)
(***************************************************************************)
ProcessWidth == 2

FloatPixelValues == {0, FloatUnit \div 2, FloatUnit}

\* The RGB images of w pixels in a row with the colours of P.
RGBImagesOf(fmt, w, P) ==
    {[fmt |-> fmt, width |-> w, height |-> 1, nch |-> 3,
      px |-> [c \in 1..3 |-> [i \in 1..w |-> col[i][c]]]] :
        col \in [1..w -> P]}

Black == <<0, 0, 0>>
White == <<FloatUnit, FloatUnit, FloatUnit>>
Orange == <<FloatUnit, FloatUnit \div 2, 0>>

\* Rows of grey and of black, white and orange pixels.
KeyImages ==
    ImagesOf("Float32", 1, ProcessWidth, 1, FloatPixelValues)
    \cup RGBImagesOf("Float32", ProcessWidth + 1, {Black, White})

ProcessImages ==
    KeyImages
    \cup ImagesOf("Float32", 1, 1, 1, FloatPixelValues)
    \cup ImagesOf("Float32", 1, 2, 2, {0, FloatUnit})
    \cup RGBImagesOf("Float32", ProcessWidth + 1, {Black, White, Orange})
    \cup ImagesOf("UInt16", 1, 1, 1, {0, 1, UInt16Max})
    \cup RGBImagesOf("UInt8", 1, {<<0, 128, UInt8Max>>, Black})
    \cup UNION {ImagesOf(f, 1, 1, 1, {0}) : f \in ComplexFormats}

Scientific == [DefaultInstance EXCEPT !.processingMode = "Scientific"]

\* An instance with one parameter that both modes read moved to an end of
\* its declared range.
Variations(I) ==
    {I} \cup {[I EXCEPT !.sensorProfile = p] : p \in {2, g_numSensorProfiles - 1}}
        \cup {[I EXCEPT !.logD = v] : v \in {0, 7 * One}}
        \cup {[I EXCEPT !.protectB = v] : v \in {Tenth, 15 * One}}
        \cup {[I EXCEPT !.colorConvergence = v] : v \in {One, 10 * One}}
        \cup {[I EXCEPT !.linearExpansion = One]}
        \cup {[I EXCEPT !.adaptiveAnchor = FALSE]}

Instances ==
    Variations(DefaultInstance) \cup Variations(Scientific)
      \cup {[DefaultInstance EXCEPT !.targetBackground = v] :
                v \in {One \div 20, One \div 2}}
      \cup {[DefaultInstance EXCEPT !.colorStrategy = v] : v \in {-100, 100}}
      \cup {[Scientific EXCEPT !.colorGrip = v] : v \in {0, One \div 2}}
      \cup {[Scientific EXCEPT !.shadowConvergence = 3 * One]}
      \cup {[Scientific EXCEPT !.linearExpansion = v] :
                v \in {One \div Kilo, One \div 2}}

\* Flat grey mono images of value 0.1.
FlatGrayImages ==
    {img \in UNION {ImagesOf("Float32", 1, w, h, {FloatUnit \div 10}) :
                        w \in 1..(ProcessWidth + 1), h \in 1..2} :
        img.height = 1 \/ img.width = 2}

\* The instances with logD = 2 and b = 6, with the statistical anchor.
StatisticalInstances ==
    {[I EXCEPT !.adaptiveAnchor = FALSE] :
        I \in {J \in Instances : J.logD = 2 * One /\ J.protectB = 6 * One}}

\* Every image under the defaults of each mode, the key images under every
\* instance, the flat grey images under the statistical anchor.
ProcessRuns ==
    (ProcessImages \X {DefaultInstance, Scientific})
      \cup (KeyImages \X Instances)
      \cup (FlatGrayImages \X StatisticalInstances)

\* No earlier run on the image.
NoRun == [fn |-> "none", located |-> <<>>]

InitProcess ==
    /\ \E run \in ProcessRuns :
          /\ call = [fn |-> "none", source |-> run[1], first |-> NoRun]
          /\ inst = run[2]
    /\ frame = "none"
    /\ ret = "pending"
    /\ image = call.source
    /\ stages = <<>>

Running(stage) ==
    /\ call.fn \in {"ExecuteOn", "Preview"}
    /\ frame.pc = stage

CallCanExecuteOn ==
    /\ call.fn = "none"
    /\ call' = [call EXCEPT !.fn = "CanExecuteOn"]
    /\ ret' = [result |-> ~IsComplexSample(image),
               whyNot |-> IF IsComplexSample(image) THEN WhyNotComplex ELSE ""]
    /\ UNCHANGED <<frame, inst, image, stages>>

\* if ( image.IsComplexSample() ) return false;
ExecuteOnComplex ==
    /\ call.fn = "none"
    /\ IsComplexSample(image)
    /\ call' = [call EXCEPT !.fn = "ExecuteOn"]
    /\ frame' = Returned
    /\ ret' = "false"
    /\ UNCHANGED <<inst, image, stages>>

ExecuteOn ==
    /\ call.fn = "none"
    /\ ~IsComplexSample(image)
    /\ call' = [call EXCEPT !.fn = "ExecuteOn"]
    /\ frame' = Locals(inst)
    /\ UNCHANGED <<ret, inst, image, stages>>

\* Preview takes a pcl::Image (32-bit float).
Preview ==
    /\ call.fn = "none"
    /\ image.fmt = "Float32"
    /\ call' = [call EXCEPT !.fn = "Preview"]
    /\ frame' = Locals(inst)
    /\ UNCHANGED <<ret, inst, image, stages>>

StageNormalizeInput ==
    /\ Running("NormalizeInput")
    /\ \E target \in NormalizeInput(image) :
          frame' = [frame EXCEPT !.working = target, !.pc = "CalculateAnchor"]
    /\ stages' = Append(stages, "NormalizeInput")
    /\ UNCHANGED <<call, ret, inst, image>>

StageCalculateAnchor ==
    /\ Running("CalculateAnchor")
    /\ frame' = [frame EXCEPT
          !.anchor = IF inst.adaptiveAnchor
                     THEN CalculateAnchorAdaptive(frame.working, frame.profile)
                     ELSE CalculateAnchor(frame.working),
          !.pc = "ExtractLuminance"]
    /\ stages' = Append(stages, "CalculateAnchor")
    /\ UNCHANGED <<call, ret, inst, image>>

StageExtractLuminance ==
    /\ Running("ExtractLuminance")
    /\ frame' = [frame EXCEPT
          !.luma = ExtractLuminance(frame.working, frame.anchor, frame.profile),
          !.pc = "HyperbolicStretch"]
    /\ stages' = Append(stages, "ExtractLuminance")
    /\ UNCHANGED <<call, ret, inst, image>>

StageHyperbolicStretch ==
    /\ Running("HyperbolicStretch")
    /\ frame' = [frame EXCEPT
          !.luma = HyperbolicStretch(frame.luma, frame.D, inst.protectB, 0),
          !.pc = AfterStretch(inst.processingMode, frame.linearExp)]
    /\ stages' = Append(stages, "HyperbolicStretch")
    /\ UNCHANGED <<call, ret, inst, image>>

StageApplyLinearExpansion ==
    /\ Running("ApplyLinearExpansion")
    /\ \E maxPos \in Located(MaximumPositions(frame.luma),
                               call.first.located, Len(frame.located) + 1) :
          frame' = [frame EXCEPT
             !.luma = ExpansionCall(call.fn, frame.luma, frame.linearExp,
                                    maxPos).luma,
             !.located = Append(@, maxPos),
             !.pc = "ReconstructColor"]
    /\ stages' = Append(stages, "ApplyLinearExpansion")
    /\ UNCHANGED <<call, ret, inst, image>>

StageReconstructColor ==
    /\ Running("ReconstructColor")
    /\ frame' = [frame EXCEPT
          !.working = ReconstructColor(frame.working, frame.luma,
                          AnchoredRGB(frame.working, frame.anchor),
                          inst.colorConvergence, frame.grip, frame.shadow,
                          frame.D, inst.protectB),
          !.pc = AfterReconstruct(inst.processingMode)]
    /\ stages' = Append(stages, "ReconstructColor")
    /\ UNCHANGED <<call, ret, inst, image>>

StageAdaptiveOutputScaling ==
    /\ Running("AdaptiveOutputScaling")
    /\ \E maxPos \in Located(MaximumPositions(ScalingLuma(frame.working,
                                                            frame.profile)),
                               call.first.located, Len(frame.located) + 1) :
          frame' = [frame EXCEPT
             !.working = AdaptiveOutputScaling(frame.working, frame.profile,
                                               inst.targetBackground, maxPos),
             !.located = Append(@, maxPos),
             !.pc = "ApplyReadyToUseSoftClip"]
    /\ stages' = Append(stages, "AdaptiveOutputScaling")
    /\ UNCHANGED <<call, ret, inst, image>>

StageApplyReadyToUseSoftClip ==
    /\ Running("ApplyReadyToUseSoftClip")
    /\ frame' = [frame EXCEPT
          !.working = ApplyReadyToUseSoftClip(frame.working, SoftClipThreshold,
                                              SoftClipRolloff),
          !.pc = "CopyImage"]
    /\ stages' = Append(stages, "ApplyReadyToUseSoftClip")
    /\ UNCHANGED <<call, ret, inst, image>>

\* image.CopyImage( working ) / img.Assign( working ); return true.
WriteBack ==
    /\ Running("CopyImage")
    /\ image' = CopyImage(image, frame.working)
    /\ frame' = [frame EXCEPT !.pc = "done"]
    /\ stages' = Append(stages, "CopyImage")
    /\ ret' = "true"
    /\ UNCHANGED <<call, inst>>

\* After an ExecuteOn that returned true on a 32-bit floating-point image:
\* Preview is run on the image as it was, with the same instance.  What
\* ExecuteOn did is kept in call.first.
PreviewOnSameImage ==
    /\ call.fn = "ExecuteOn"
    /\ ret = "true"
    /\ call.source.fmt = "Float32"
    /\ call' = [call EXCEPT
          !.fn = "Preview",
          !.first = [fn |-> call.fn, image |-> image, stages |-> stages,
                     located |-> frame.located]]
    /\ image' = call.source
    /\ frame' = Locals(inst)
    /\ stages' = <<>>
    /\ ret' = "pending"
    /\ UNCHANGED inst

EngineStages ==
    {"NormalizeInput", "CalculateAnchor", "ExtractLuminance",
     "HyperbolicStretch", "ApplyLinearExpansion", "ReconstructColor",
     "AdaptiveOutputScaling", "ApplyReadyToUseSoftClip"}

\* The stage about to run throws (ProcessAborted, std::bad_alloc, Error):
\* the catch block is the end of the run.
StageThrows ==
    /\ call.fn \in {"ExecuteOn", "Preview"}
    /\ frame.pc \in EngineStages
    /\ frame' = [frame EXCEPT !.pc = "done", !.failed = frame.pc]
    /\ ret' = FailureOutcome(call.fn)
    /\ UNCHANGED <<call, inst, image, stages>>

NextProcess ==
    \/ CallCanExecuteOn
    \/ ExecuteOnComplex
    \/ ExecuteOn
    \/ Preview
    \/ StageNormalizeInput
    \/ StageCalculateAnchor
    \/ StageExtractLuminance
    \/ StageHyperbolicStretch
    \/ StageApplyLinearExpansion
    \/ StageReconstructColor
    \/ StageAdaptiveOutputScaling
    \/ StageApplyReadyToUseSoftClip
    \/ WriteBack
    \/ StageThrows
    \/ PreviewOnSameImage
    \/ CallNormalizeInput
    \/ CallNormalizeInputThrows

SpecProcess == InitProcess /\ [][NextProcess]_vars

Range(s) == {s[k] : k \in 1..Len(s)}

\* The stages in the order ExecuteOn and Preview write them.
StageOrder ==
    <<"NormalizeInput", "CalculateAnchor", "ExtractLuminance",
      "HyperbolicStretch", "ApplyLinearExpansion", "ReconstructColor",
      "AdaptiveOutputScaling", "ApplyReadyToUseSoftClip", "CopyImage">>

Rank(stage) == CHOOSE k \in 1..Len(StageOrder) : StageOrder[k] = stage

ModeStages ==
    {"ApplyLinearExpansion", "AdaptiveOutputScaling", "ApplyReadyToUseSoftClip"}

InProcess == call.fn \in {"ExecuteOn", "Preview"}

\* C1: in every run of ExecuteOn or Preview the stages run in the order
\* normalize, anchor, luminance, stretch, [linear expansion], colour
\* reconstruction, [output scaling, soft clip], write-back, none twice and
\* none of the unbracketed ones skipped; linear expansion runs only in
\* Scientific mode with an effective expansion above 0.001, output scaling
\* and soft clip only in Ready-to-Use mode and after colour reconstruction,
\* and no run has both linear expansion and output scaling, whatever
\* linearExpansion is.
C1_StageOrder ==
    InProcess =>
      /\ \A i, j \in 1..Len(stages) :
            i < j => Rank(stages[i]) < Rank(stages[j])
      /\ \A j \in 1..Len(stages) : \A k \in 1..(Rank(stages[j]) - 1) :
            StageOrder[k] \notin ModeStages => StageOrder[k] \in Range(stages)
      /\ "ApplyLinearExpansion" \in Range(stages) =>
            /\ inst.processingMode = "Scientific"
            /\ GetEffectiveParams(inst).linearExp > One \div Kilo
      /\ Range(stages) \cap {"AdaptiveOutputScaling",
                             "ApplyReadyToUseSoftClip"} # {} =>
            /\ inst.processingMode = "ReadyToUse"
            /\ "ReconstructColor" \in Range(stages)
      /\ ~ /\ "ApplyLinearExpansion" \in Range(stages)
           /\ "AdaptiveOutputScaling" \in Range(stages)

\* A Ready-to-Use run with linearExpansion = 1 that went through output
\* scaling and soft clip to the write-back.
C1_Witness ==
    /\ call.fn = "ExecuteOn" /\ ret = "true"
    /\ inst.processingMode = "ReadyToUse" /\ inst.linearExpansion = One
    /\ stages = <<"NormalizeInput", "CalculateAnchor", "ExtractLuminance",
                  "HyperbolicStretch", "ReconstructColor",
                  "AdaptiveOutputScaling", "ApplyReadyToUseSoftClip",
                  "CopyImage">>

\* C2: a complex-sample image is rejected before any stage runs:
\* CanExecuteOn returns false with a reason, ExecuteOn returns false,
\* NormalizeInput throws, and the pixel data stays as it was.
C2_ComplexRejected ==
    (call.source.fmt \in ComplexFormats /\ call.fn # "none") =>
      /\ image = call.source
      /\ stages = <<>>
      /\ call.fn \in {"CanExecuteOn", "ExecuteOn", "NormalizeInput"}
      /\ call.fn = "CanExecuteOn" => (~ret.result /\ ret.whyNot # "")
      /\ call.fn = "ExecuteOn" => (ret = "false" /\ frame.pc = "done")
      /\ call.fn = "NormalizeInput" => ret.threw

C2_Witness ==
    /\ call.source.fmt \in ComplexFormats
    /\ call.fn = "ExecuteOn" /\ ret = "false"
    /\ image = call.source /\ stages = <<>>

\* C3: when a stage throws the run is over (the stage is not run again),
\* ExecuteOn rethrows and Preview returns false, and the image is as it was
\* at entry; the image changes only in the write-back, which is the last
\* step and follows the success of every stage of the run.
C3_FailureLeavesImage ==
    InProcess =>
      /\ frame.failed # "none" =>
            /\ frame.pc = "done"
            /\ ret = (IF call.fn = "ExecuteOn" THEN "throws" ELSE "false")
            /\ image = call.source
            /\ frame.failed \notin Range(stages)
            /\ "CopyImage" \notin Range(stages)
      /\ "CopyImage" \notin Range(stages) =>
            (image = call.source /\ ret # "true")
      /\ "CopyImage" \in Range(stages) =>
            /\ stages[Len(stages)] = "CopyImage"
            /\ frame.pc = "done" /\ frame.failed = "none" /\ ret = "true"
            /\ image = CopyImage(call.source, frame.working)

\* Preview fails in colour reconstruction, after four stages.
C3_Witness ==
    /\ call.fn = "Preview" /\ frame.failed = "ReconstructColor"
    /\ ret = "false" /\ image = call.source
    /\ Len(stages) >= 4

InUnit(img) == \A v \in AllSamples(img) : 0 <= v /\ v <= One

\* Every sample of the view is inside the range of its sample type.
InSampleRange(img) ==
    \A v \in AllSamples(img) :
        /\ 0 <= v
        /\ v <= (IF img.fmt = "UInt8" THEN UInt8Max
                 ELSE IF img.fmt \in IntegerFormats THEN UInt16Max ELSE One)

SameGeometry(a, b) ==
    a.width = b.width /\ a.height = b.height /\ a.nch = b.nch

\* The image ExecuteOn wrote back has the geometry of the input and its
\* samples in range.
WrittenInRange ==
    ret = "true" => (SameGeometry(image, call.source) /\ InSampleRange(image))

\* The sum of the weights of a profile, as a sample.
WeightSum(profile) ==
    MulDiv(profile[1] + profile[2] + profile[3], One, WeightUnit)

\* C5 as stated: the image written back by ExecuteOn has the geometry of
\* the input and samples in [0,1], and every stage hands samples in [0,1]
\* to the next.
C5_EveryStageInUnit ==
    (call.fn = "ExecuteOn" /\ call.source.fmt \notin ComplexFormats) =>
      /\ WrittenInRange
      /\ InUnit(frame.working)
      /\ InUnit(frame.luma)

\* C5, amended: the image written back by ExecuteOn has the geometry of the
\* input and samples in [0,1]; NormalizeInput, HyperbolicStretch, linear
\* expansion, colour reconstruction, output scaling and soft clip hand
\* samples in [0,1] to the next stage; ExtractLuminance hands samples
\* between 0 and the sum of the profile's weights, which can exceed 1.
C5_StagesInUnitAfterStretch ==
    (call.fn = "ExecuteOn" /\ call.source.fmt \notin ComplexFormats) =>
      /\ WrittenInRange
      /\ InUnit(frame.working)
      /\ IF frame.pc = "HyperbolicStretch"
            \/ frame.failed = "HyperbolicStretch"
         THEN \A v \in AllSamples(frame.luma) :
                 0 <= v /\ v <= Max(One, WeightSum(frame.profile))
         ELSE InUnit(frame.luma)

\* An RGB run under a profile whose weights sum to 1.0001 wrote its result
\* back after the luminance of a white pixel had exceeded 1.
C5_Witness ==
    /\ call.fn = "ExecuteOn" /\ ret = "true"
    /\ call.source.nch = 3
    /\ WeightSum(frame.profile) > One
    /\ \E i \in 1..NumberOfPixels(call.source) :
          \A c \in 1..3 : call.source.px[c][i] = FloatUnit
    /\ frame.anchor = 0
    /\ SameGeometry(image, call.source) /\ InSampleRange(image)

(***************************************************************************)
(* Calls of ApplyLinearExpansion (with diagnostics), repeated on its own   *)
(* result, and of AdaptiveOutputScaling on the same data.  `call' holds    *)
(* the image first passed (source), the image passed to the latest call    *)
(* (target), the factor and the position LocateMaximumSampleValue          *)
(* reported; `frame' the locals of the latest call; `ret' what it left in  *)
(* the image and in *diagnostics.                                          *)
(***************************************************************************)
ExpansionWidth == 2
MaxApplications == 2

\* 0, a value at most 0.001, 0.1, 0.5, 0.9 and 1.
ExpansionSamples ==
    {0, One \div 2000, Tenth, One \div 2, (9 * One) \div 10, One}

\* The two values of a 3 x 3 image: 10 % and 90 % of the maximum 1.
TwoLevels == {<<Tenth, One>>, <<(9 * One) \div 10, One>>}

ExpansionTargets ==
    UNION {ImagesOf("Float32", 1, w, 1, ExpansionSamples) :
               w \in 1..(ExpansionWidth + 1)}
    \cup UNION {ImagesOf("Float32", 1, 3, 3, {l[1], l[2]}) : l \in TwoLevels}
    \cup ImagesOf("Float32", 3, 1, 1, {0, One \div 2, One})

\* factor: 0, 0.001, 0.5, and 1.5 (clamped to 1).
ExpansionFactors == {0, One \div Kilo, One \div 2, (3 * One) \div 2}

InitExpansion ==
    /\ \E img \in ExpansionTargets :
          call = [fn |-> "none", source |-> img, target |-> img,
                  factor |-> 0, maxPos |-> 1]
    /\ frame = "none"
    /\ ret = "pending"
    /\ IdleProcess

\* The locals of ApplyLinearExpansion past the early return.
ExpansionLocals(target, factor, maxPos, n) ==
    LET sample == StridedSamples(target,
                     Max(1, NumberOfPixels(target) \div ExpansionCapacity))
    IN  IF factor <= ExpansionFloor
        THEN [applications |-> n, returnedEarly |-> TRUE,
              useAbsoluteMax |-> FALSE, low |-> 0, high |-> 0]
        ELSE [applications |-> n, returnedEarly |-> FALSE,
              useAbsoluteMax |-> UseAbsoluteMax(target, maxPos),
              low  |-> PercentileInPlace(sample, LowPct),
              high |-> ExpansionHigh(target, sample, maxPos)]

CallApplyLinearExpansion ==
    \E factor \in ExpansionFactors, maxPos \in MaximumPositions(call.target) :
        /\ call.fn = "none"
        /\ call' = [call EXCEPT !.fn = "ApplyLinearExpansion",
                                !.factor = factor, !.maxPos = maxPos]
        /\ frame' = ExpansionLocals(call.target, factor, maxPos, 1)
        /\ ret' = ApplyLinearExpansion(call.target, factor, maxPos)
        /\ UNCHANGED process

\* ApplyLinearExpansion once more, with the same factor, on the image the
\* previous call left.
ApplyLinearExpansionAgain ==
    /\ call.fn = "ApplyLinearExpansion"
    /\ frame.applications < MaxApplications
    /\ \E maxPos \in MaximumPositions(ret.target) :
          /\ call' = [call EXCEPT !.target = ret.target, !.maxPos = maxPos]
          /\ frame' = ExpansionLocals(ret.target, call.factor, maxPos,
                                      frame.applications + 1)
          /\ ret' = ApplyLinearExpansion(ret.target, call.factor, maxPos)
    /\ UNCHANGED process

\* AdaptiveOutputScaling( target, profile, targetBg ) on the same data.
CallAdaptiveOutputScaling ==
    \E maxPos \in MaximumPositions(ScalingLuma(call.target, SensorProfiles[1])) :
        /\ call.fn = "none"
        /\ call' = [call EXCEPT !.fn = "AdaptiveOutputScaling",
                                !.maxPos = maxPos]
        /\ frame' = [validPhysicalMax |->
                        ValidPhysicalMax(ScalingLuma(call.target,
                                                     SensorProfiles[1]), maxPos)]
        /\ ret' = [target |-> AdaptiveOutputScaling(call.target,
                                 SensorProfiles[1], One \div 5, maxPos)]
        /\ UNCHANGED process

NextExpansion ==
    \/ CallApplyLinearExpansion
    \/ ApplyLinearExpansionAgain
    \/ CallAdaptiveOutputScaling

SpecExpansion == InitExpansion /\ [][NextExpansion]_vars

ExpansionRan == call.fn = "ApplyLinearExpansion" /\ ~frame.returnedEarly

ZeroStats == [pctLow |-> 0, pctHigh |-> 0, low |-> 0, high |-> 0]

\* C12: ApplyLinearExpansion with a factor <= 0.001 is a no-op: after any
\* number of applications the image is the one first passed, and the
\* diagnostics pctLow, pctHigh, low and high are all 0.
C12_NoOp ==
    (call.fn = "ApplyLinearExpansion" /\ call.factor <= One \div Kilo) =>
        /\ ret.target = call.source
        /\ ret.stats = ZeroStats

\* Factor 0.001 applied MaxApplications times to the row 0, 0.1, 1.
C12_Witness ==
    /\ call.fn = "ApplyLinearExpansion"
    /\ call.factor = One \div Kilo
    /\ frame.applications = MaxApplications
    /\ call.source.px = <<<<0, Tenth, One>>>>
    /\ ret.target = call.source

AbsMax(img) == SetMax(AllSamples(img))

\* The brightest pixel p has neighbours, and every value of its 3 x 3
\* neighbourhood is within 20 % of the maximum.
BrightCluster(img, p) ==
    /\ Cardinality(Neighbourhood(img, p)) > 1
    /\ \A n \in Neighbourhood(img, p) : 5 * img.px[1][n] >= 4 * AbsMax(img)

\* Every neighbour of the brightest pixel p is below 20 % of the maximum.
IsolatedPixel(img, p) ==
    \A n \in Neighbourhood(img, p) \ {p} : 5 * img.px[1][n] < AbsMax(img)

C18_DiagnosticsZeroed ==
    (ExpansionRan /\ frame.high <= frame.low) =>
        /\ ret.target = call.target
        /\ ret.stats = ZeroStats

\* C18 amended: when the resolved high bound does not exceed the low bound,
\* no sample is changed, pctLow and pctHigh are 0, and low and high hold the
\* resolved bounds.
C18_NoOpKeepsBounds ==
    (ExpansionRan /\ frame.high <= frame.low) =>
        /\ ret.target = call.target
        /\ ret.stats.pctLow = 0 /\ ret.stats.pctHigh = 0
        /\ ret.stats.low = frame.low /\ ret.stats.high = frame.high

\* Factor 0.5 on a flat row of 0.5: both bounds are 0.5.
C18_Witness ==
    /\ ExpansionRan
    /\ call.factor = One \div 2
    /\ call.target.px = <<<<One \div 2, One \div 2>>>>
    /\ frame.low = One \div 2 /\ frame.high = One \div 2
    /\ ret.target = call.target
    /\ ret.stats.low = One \div 2

\* The number of samples of img, over all channels, that satisfy P.
CountSamples(img, P(_)) ==
    Cardinality({<<c, i>> \in (1..img.nch) \X (1..NumberOfPixels(img)) :
                    P(img.px[c][i])})

TotalSamples(img) == NumberOfPixels(img) * img.nch

\* pct (thousandths of a percent) is 100 * count / total, rounded down.
IsPercentage(pct, count, total) ==
    /\ pct * total <= count * Pct100
    /\ count * Pct100 < (pct + 1) * total

\* C19 as claimed: with high > low, pctLow and pctHigh are fractions in
\* [0,1]: the share of all samples, before blending, at or below low and at
\* or above high; low and high hold the resolved bounds.
C19_ClampFractions ==
    (ExpansionRan /\ frame.high > frame.low) =>
        /\ 0 <= ret.stats.pctLow /\ ret.stats.pctLow <= PctUnit
        /\ 0 <= ret.stats.pctHigh /\ ret.stats.pctHigh <= PctUnit
        /\ ret.stats.pctLow * TotalSamples(call.target)
             = PctUnit * CountSamples(call.target, LAMBDA v : v <= frame.low)
        /\ ret.stats.pctHigh * TotalSamples(call.target)
             = PctUnit * CountSamples(call.target, LAMBDA v : v >= frame.high)
        /\ ret.stats.low = frame.low /\ ret.stats.high = frame.high

\* C19 amended: with high > low, pctLow and pctHigh are percentages in
\* [0,100]: 100 times the share of all samples, before blending, at or below
\* low and at or above high; low and high hold the resolved bounds.
C19_ClampPercentages ==
    (ExpansionRan /\ frame.high > frame.low) =>
        /\ 0 <= ret.stats.pctLow /\ ret.stats.pctLow <= Pct100
        /\ 0 <= ret.stats.pctHigh /\ ret.stats.pctHigh <= Pct100
        /\ IsPercentage(ret.stats.pctLow,
                        CountSamples(call.target, LAMBDA v : v <= frame.low),
                        TotalSamples(call.target))
        /\ IsPercentage(ret.stats.pctHigh,
                        CountSamples(call.target, LAMBDA v : v >= frame.high),
                        TotalSamples(call.target))
        /\ ret.stats.low = frame.low /\ ret.stats.high = frame.high

\* Factor 0.5 on the RGB pixel (0, 0.5, 1): one sample of three is at or
\* below low, one at or above high.
C19_Witness ==
    /\ ExpansionRan
    /\ frame.applications = 1
    /\ call.factor = One \div 2
    /\ call.target.px = <<<<0>>, <<One \div 2>>, <<One>>>>
    /\ frame.high > frame.low
    /\ ret.stats.pctLow = Pct100 \div 3
    /\ ret.stats.pctHigh = Pct100 \div 3
    /\ ret.stats.low = frame.low /\ ret.stats.high = frame.high

\* C20 as claimed: on every single-channel image validPhysicalMax of
\* AdaptiveOutputScaling equals useAbsoluteMax of ApplyLinearExpansion on
\* the same data, also when the maximum is <= 0.001 or the brightest
\* neighbourhood is a flat plateau.
C20_SameDecision ==
    (call.fn = "AdaptiveOutputScaling" /\ call.target.nch = 1) =>
        frame.validPhysicalMax = UseAbsoluteMax(call.target, call.maxPos)

\* C20 amended: on every single-channel image whose maximum exceeds 0.001,
\* flat plateaus included, validPhysicalMax equals useAbsoluteMax on the same
\* data; when the maximum is <= 0.001 validPhysicalMax is true and
\* useAbsoluteMax is false.
C20_SameTestAboveThreshold ==
    (call.fn = "AdaptiveOutputScaling" /\ call.target.nch = 1) =>
        IF AbsMax(call.target) > One \div Kilo
        THEN frame.validPhysicalMax = UseAbsoluteMax(call.target, call.maxPos)
        ELSE frame.validPhysicalMax /\ ~UseAbsoluteMax(call.target, call.maxPos)

\* AdaptiveOutputScaling on a flat 3 x 3 plateau of 1: the maximum is not
\* taken as a physical ceiling, as in ApplyLinearExpansion.
C20_Witness ==
    /\ call.fn = "AdaptiveOutputScaling"
    /\ call.target.width = 3 /\ call.target.height = 3
    /\ AllSamples(call.target) = {One}
    /\ ~frame.validPhysicalMax
    /\ ~UseAbsoluteMax(call.target, call.maxPos)

(***************************************************************************)
(* Calls of ReconstructColor.  `call' holds the arguments (rgb is the      *)
(* anchored original as well as the image written), `frame' the factor k   *)
(* of every pixel, `ret' the image after the call.                         *)
(***************************************************************************)
ReconstructWidth == 1

\* Black, white, orange and a dim brown.
ReconstructColors ==
    {<<0, 0, 0>>, <<One, One, One>>, <<One, One \div 2, 0>>,
     <<One \div 5, Tenth, One \div 20>>}

\* Stretched luminance: 0, 0.005, 0.01, 0.5 and 1.
ReconstructLumas == {0, One \div 200, One \div 100, One \div 2, One}

ReconstructImages ==
    UNION {RGBImagesOf("Float32", w, ReconstructColors) :
               w \in 1..ReconstructWidth}
    \cup ImagesOf("Float32", 1, 1, 1, {One \div 2})

InitReconstruct ==
    /\ \E rgb \in ReconstructImages :
         \E luma \in ImagesOf("Float32", 1, rgb.width, 1, ReconstructLumas) :
            call = [fn |-> "none", rgb |-> rgb, luma |-> luma,
                    colorConvergence |-> One, colorGrip |-> One,
                    shadowConvergence |-> 0]
    /\ frame = "none"
    /\ ret = "pending"
    /\ IdleProcess

\* D = 100 and b = 6 for the scalar stretch of the hybrid blend.
CallReconstructColor ==
    \E cc \in {One, (7 * One) \div 2, 10 * One},
       grip \in {0, One \div 2, One}, shadow \in {0, One} :
        /\ call.fn = "none"
        /\ call' = [call EXCEPT !.fn = "ReconstructColor",
                                !.colorConvergence = cc, !.colorGrip = grip,
                                !.shadowConvergence = shadow]
        /\ frame' = [k |-> [i \in 1..NumberOfPixels(call.luma) |->
                               Pow(call.luma.px[1][i], cc)]]
        /\ ret' = ReconstructColor(call.rgb, call.luma, call.rgb, cc, grip,
                                   shadow, <<100, 0>>, 6 * One)
        /\ UNCHANGED process

NextReconstruct == CallReconstructColor

SpecReconstruct == InitReconstruct /\ [][NextReconstruct]_vars

\* The pixels the claim is about: RGB, colorGrip = 1, shadowConvergence = 0
\* and k = 0.
VectorOnly(i) ==
    /\ call.fn = "ReconstructColor"
    /\ call.rgb.nch = 3
    /\ call.colorGrip = One /\ call.shadowConvergence = 0
    /\ frame.k[i] = 0

\* Values within this distance are equal up to the rounding of the
\* arithmetic.
Rounding == 1 + 2

\* C14 as claimed: with colorGrip = 1 and shadowConvergence = 0, for every
\* RGB pixel whose factor k is 0, the channel ratios of the image produced
\* equal those of the original anchored pixel: out_c * orig_d = out_d *
\* orig_c for all channels c, d.
C14_RatiosPreserved ==
    \A i \in 1..(IF call.fn = "ReconstructColor"
                 THEN NumberOfPixels(call.luma) ELSE 0) :
        VectorOnly(i) =>
            \A c, d \in 1..3 :
                Abs(Mul(ret.px[c][i], call.rgb.px[d][i])
                      - Mul(ret.px[d][i], call.rgb.px[c][i])) <= Rounding

\* C14 amended: with colorGrip = 1 and shadowConvergence = 0, for every RGB
\* pixel whose factor k is 0, every channel of the image produced is
\* 0.995 * L * orig_c / (orig_R + orig_G + orig_B) + 0.005: the values before
\* the pedestal are in the ratios of the original anchored pixel.
C14_RatiosBeforePedestal ==
    \A i \in 1..(IF call.fn = "ReconstructColor"
                 THEN NumberOfPixels(call.luma) ELSE 0) :
        VectorOnly(i) =>
            \A c \in 1..3 :
                LET sum == call.rgb.px[1][i] + call.rgb.px[2][i]
                             + call.rgb.px[3][i]
                    vec == IF sum = 0 THEN 0
                           ELSE MulDiv(Mul(call.luma.px[1][i],
                                           One - One \div 200),
                                       call.rgb.px[c][i], sum)
                IN  Abs(ret.px[c][i] - (vec + One \div 200)) <= Rounding

\* An orange pixel (1, 0.5, 0) at stretched luminance 0.01 with
\* colorConvergence 3.5: k = 0, the blue channel is the pedestal alone.
C14_Witness ==
    /\ VectorOnly(1)
    /\ call.colorConvergence = (7 * One) \div 2
    /\ call.luma.px[1][1] = One \div 100
    /\ call.rgb.px = <<<<One>>, <<One \div 2>>, <<0>>>>
    /\ ret.px[3][1] = One \div 200
    /\ ret.px[1][1] > ret.px[2][1] /\ ret.px[2][1] > ret.px[3][1]

\* The run the claim is about: a flat mono image of 0.1, the statistical
\* anchor, logD = 2 and b = 6 (the process passes SP = 0), run to the end.
FlatGrayRun ==
    /\ InProcess
    /\ ret = "true"
    /\ call.source.nch = 1 /\ call.source.fmt = "Float32"
    /\ AllSamples(call.source) = {FloatUnit \div 10}
    /\ ~inst.adaptiveAnchor
    /\ inst.logD = 2 * One /\ inst.protectB = 6 * One

\* C15: on a flat mono image of value 0.1, with the statistical anchor,
\* logD = 2, b = 6 and SP = 0, the image written has no spatial variation
\* and its common value is strictly between 0 and 1, in either mode.
C15_FlatGray ==
    FlatGrayRun =>
        \E v \in AllSamples(image) :
            /\ AllSamples(image) = {v}
            /\ 0 < v /\ v < One

\* ExecuteOn in Ready-to-Use mode on a flat 2 x 2 image: the anchor is
\* 0.09975 and the output is flat, after all eight stages.
C15_Witness ==
    /\ FlatGrayRun
    /\ call.fn = "ExecuteOn"
    /\ inst.processingMode = "ReadyToUse"
    /\ call.source.width = 2 /\ call.source.height = 2
    /\ frame.anchor = Tenth - AnchorOffset
    /\ Len(stages) = 8
    /\ Cardinality(AllSamples(image)) = 1


\* C25: for a 3-channel target with luminance and anchored RGB in [0,1] and
\* colorGrip in [0,1], every sample ReconstructColor produces is in
\* [0.005, 1]; for a target that does not have 3 channels the result is the
\* luminance image, with no pedestal.
C25_PedestalFloor ==
    call.fn = "ReconstructColor" =>
        IF call.rgb.nch = 3
        THEN /\ ret.nch = 3
             /\ \A v \in AllSamples(ret) : ColorPedestal <= v /\ v <= One
        ELSE ret = call.luma

\* A dim brown pixel at stretched luminance 0, half blended with the scalar
\* stretch: a channel above the pedestal and none below it.
C25_Witness ==
    /\ call.fn = "ReconstructColor"
    /\ call.rgb.nch = 3
    /\ call.colorGrip = One \div 2
    /\ call.luma.px[1][1] = 0
    /\ ret.px[1][1] > ColorPedestal
    /\ SetMin(AllSamples(ret)) >= ColorPedestal

\* Both ExecuteOn and Preview have returned true on the same image with the
\* same instance.
BothReturned ==
    /\ call.fn = "Preview"
    /\ call.first.fn = "ExecuteOn"
    /\ ret = "true"

ScalingWidth == 2

\* 0, 0.1, 0.5, 0.9 and 1.
ScalingSamples == {0, Tenth, One \div 2, (9 * One) \div 10, One}

ScalingTargets ==
    UNION {ImagesOf("Float32", 1, w, 1, ScalingSamples) :
               w \in 1..(ScalingWidth + 1)}
    \cup ImagesOf("Float32", 3, 1, 1, {0, One \div 2, One})

\* targetBg: 0.002 (1e-3 above the pedestal, where a flat image rests), the
\* parameter's bounds 0.05 and 0.50, its default 0.20, and 0.9.
ScalingBackgrounds ==
    {One \div 500, One \div 20, One \div 5, One \div 2, (9 * One) \div 10}

InitScaling ==
    /\ \E img \in ScalingTargets, targetBg \in ScalingBackgrounds :
          call = [fn |-> "none", target |-> img, targetBg |-> targetBg,
                  maxPos |-> 1]
    /\ frame = "none"
    /\ ret = "pending"
    /\ IdleProcess

\* AdaptiveOutputScaling( target, profile, targetBg ).
ScaleToBackground ==
    \E maxPos \in MaximumPositions(ScalingLuma(call.target, SensorProfiles[1])) :
        /\ call.fn = "none"
        /\ call' = [call EXCEPT !.fn = "AdaptiveOutputScaling",
                                !.maxPos = maxPos]
        /\ frame' = ScalingLocals(call.target, SensorProfiles[1],
                                  call.targetBg, maxPos)
        /\ ret' = [target |-> AdaptiveOutputScaling(call.target,
                                 SensorProfiles[1], call.targetBg, maxPos)]
        /\ UNCHANGED process

NextScaling == ScaleToBackground

SpecScaling == InitScaling /\ [][NextScaling]_vars

Scaled == call.fn = "AdaptiveOutputScaling"

\* currentBg strictly inside (0,1) and more than 1e-3 away from targetBg.
OffBackground ==
    /\ frame.currentBg > 0
    /\ frame.currentBg < One
    /\ Abs(frame.currentBg - frame.targetBg) > One \div Kilo

\* ApplyMTF's quotient term1 / term2 at x is y, cross-multiplied: term1 and
\* y * term2 differ by no more than the six-decimal rounding of m and of the
\* products.
TransferRounding == 1 + 2

TakesTo(x, m, y) ==
    /\ Mul(2 * m - One, x) - m # 0
    /\ Abs(Mul(m - One, x) - Mul(y, Mul(2 * m - One, x) - m))
          <= TransferRounding

\* C21: AdaptiveOutputScaling applies the midtone transfer exactly when the
\* luminance median after the scaling, currentBg, is strictly inside (0,1)
\* and more than 1e-3 away from targetBg; when it does, with targetBg in
\* (0,1), the denominator of the solve for m is not zero, and the transfer
\* with that m takes currentBg to targetBg (to the rounding of six-decimal
\* arithmetic), 0 to 0 and 1 to 1.
C21_MidtoneTransfer ==
    Scaled =>
        /\ ret.target = (IF OffBackground
                         THEN ApplyMTF(frame.scaled, frame.m)
                         ELSE frame.scaled)
        /\ OffBackground =>
              /\ frame.denominator # 0
              /\ TakesTo(frame.currentBg, frame.m, frame.targetBg)
              /\ MTFSample(0, frame.m) = 0
              /\ MTFSample(One, frame.m) = One

\* The transfer was applied and changed the image; its median is the target.
C21_Witness ==
    /\ Scaled
    /\ OffBackground
    /\ call.target.nch = 1
    /\ frame.targetBg = One \div 5
    /\ ret.target # frame.scaled
    /\ Abs(Median(ret.target) - frame.targetBg) <= 1 + 2



(***************************************************************************)
(* Calls of the instance's accessors GetEffectiveParams and                *)
(* GetSensorProfile.  `inst' is the instance; `call' the accessor called;  *)
(* `ret' what it returned.                                                 *)
(***************************************************************************)
\* colorStrategy: the parameter's range.
ColorStrategies == (-100)..100

\* colorGrip, shadowConvergence, linearExpansion: the ends of their ranges
\* and a value inside.
ExplicitParams ==
    {<<0, 0, 0>>, <<One, 0, 0>>, <<One \div 2, (3 * One) \div 2, One \div 2>>,
     <<One, 3 * One, One>>}

\* sensorProfile: every index of the table, and values on either side.
ProfileIndices == (-2)..(g_numSensorProfiles + 1)

ParamInstances ==
    {[DefaultInstance EXCEPT !.processingMode = mode, !.colorStrategy = cs,
                             !.colorGrip = e[1], !.shadowConvergence = e[2],
                             !.linearExpansion = e[3]] :
        mode \in {"ReadyToUse", "Scientific"}, cs \in ColorStrategies,
        e \in ExplicitParams}
    \cup {[DefaultInstance EXCEPT !.sensorProfile = p] : p \in ProfileIndices}

InitParams ==
    /\ inst \in ParamInstances
    /\ call = [fn |-> "none"]
    /\ frame = "none"
    /\ ret = "pending"
    /\ image = EmptyImage
    /\ stages = <<>>

\* GetEffectiveParams( grip, shadow, linearExp ).
CallGetEffectiveParams ==
    /\ call.fn = "none"
    /\ call' = [fn |-> "GetEffectiveParams"]
    /\ ret' = GetEffectiveParams(inst)
    /\ UNCHANGED <<frame, process>>

\* GetSensorProfile().
CallGetSensorProfile ==
    /\ call.fn = "none"
    /\ call' = [fn |-> "GetSensorProfile"]
    /\ ret' = GetSensorProfile(inst)
    /\ UNCHANGED <<frame, process>>

NextParams ==
    \/ CallGetEffectiveParams
    \/ CallGetSensorProfile

SpecParams == InitParams /\ [][NextParams]_vars

\* C22: in Ready-to-Use mode, for every colorStrategy in [-100,100], the
\* effective linear expansion is 0, the grip is in [0.4,1], the shadow
\* convergence in [0,3], the grip is below 1 only for a positive and the
\* shadow above 0 only for a negative colorStrategy (so never both, and
\* neither at 0); in Scientific mode the three are the parameters colorGrip,
\* shadowConvergence and linearExpansion, whatever colorStrategy is.
C22_EffectiveParams ==
    call.fn = "GetEffectiveParams" =>
        IF inst.processingMode = "ReadyToUse"
        THEN /\ ret.linearExp = 0
             /\ ret.grip >= (4 * One) \div 10 /\ ret.grip <= One
             /\ ret.shadow >= 0 /\ ret.shadow <= 3 * One
             /\ ret.grip < One => inst.colorStrategy > 0
             /\ ret.shadow > 0 => inst.colorStrategy < 0
             /\ ~(ret.grip < One /\ ret.shadow > 0)
        ELSE ret = [grip |-> inst.colorGrip,
                    shadow |-> inst.shadowConvergence,
                    linearExp |-> inst.linearExpansion]

\* Ready-to-Use at colorStrategy 100: the grip is at its floor 0.4.
C22_Witness ==
    /\ call.fn = "GetEffectiveParams"
    /\ inst.processingMode = "ReadyToUse"
    /\ inst.colorStrategy = 100
    /\ inst.colorGrip = One
    /\ ret = [grip |-> (4 * One) \div 10, shadow |-> 0, linearExp |-> 0]



MaxStars == 2

\* A luminance row: bright pixels first, then dark ones (0), then a flat
\* background of 0.1.
StarField(stars, dark, background) ==
    [fmt |-> "Float32", width |-> Len(stars) + dark + background,
     height |-> 1, nch |-> 1,
     px |-> <<stars \o [i \in 1..dark |-> 0]
                    \o [i \in 1..background |-> Tenth]>>]

\* Sizes around the 100-sample floor and around 1000 and 2000 samples,
\* where the two rank indices part from the last index and from each other.
StarLumas ==
    {EmptyImage}
    \cup {StarField(stars, dark, background) :
            stars \in SeqsUpTo({Tenth, One \div 2, One}, MaxStars),
            dark \in {0, 3},
            background \in {0, 98, 99, 998, 999, 1998}}

InitStar ==
    /\ call \in [fn : {"none"}, luma : StarLumas]
    /\ frame = "none"
    /\ ret = "pending"
    /\ IdleProcess

CallEstimateStarPressure ==
    /\ call.fn = "none"
    /\ call' = [call EXCEPT !.fn = "EstimateStarPressure"]
    /\ frame' = IF NumberOfPixels(call.luma) = 0
                   \/ Len(StarSample(call.luma)) < MinStarSamples
                THEN [returnedEarly |-> TRUE]
                ELSE StarLocals(SortSeq(StarSample(call.luma),
                                        LAMBDA a, b : a < b))
    /\ ret' = EstimateStarPressure(call.luma)
    /\ UNCHANGED process

NextStar == CallEstimateStarPressure

SpecStar == InitStar /\ [][NextStar]_vars

\* The number of positive values among those the subsampling visits.
PositiveSubsamples(luma) ==
    Cardinality({i \in 1..NumberOfPixels(luma) :
        /\ (i - 1) % Max(1, NumberOfPixels(luma) \div 300000) = 0
        /\ luma.px[1][i] > 0})

\* The call went past both early returns: frame holds its locals.
PastEarlyReturns == "size" \in DOMAIN frame

\* C26: EstimateStarPressure returns 0 for an empty image and when fewer
\* than 100 subsampled values are positive; otherwise both rank indices are
\* inside the sorted sample, fewer than 0.1 % of the samples are strictly
\* above the value at the 99.9th rank, the tail-mass term is at most 0.2 and
\* the value returned is in [0, 0.76].
C26_StarPressure ==
    call.fn = "EstimateStarPressure" =>
        IF NumberOfPixels(call.luma) = 0 \/ PositiveSubsamples(call.luma) < 100
        THEN ret = 0 /\ ~PastEarlyReturns
        ELSE /\ PastEarlyReturns
             /\ frame.size = PositiveSubsamples(call.luma)
             /\ 0 <= frame.idx999 /\ frame.idx999 < frame.size
             /\ 0 <= frame.idx9999 /\ frame.idx9999 < frame.size
             /\ 1000 * frame.countBright < frame.size
             /\ frame.fTerm <= One \div 5
             /\ 0 <= ret /\ 100 * ret <= 76 * One

\* 1001 samples, two of them distinct stars: one sample is above the 99.9th
\* rank and the pressure is above 0.75.
C26_Witness ==
    /\ call.fn = "EstimateStarPressure"
    /\ PastEarlyReturns
    /\ frame.size = 1001
    /\ frame.countBright = 1
    /\ frame.idx999 < frame.idx9999
    /\ 100 * ret > 75 * One

(***************************************************************************)
(* HyperMetricStretchInterface: the event handlers that write m_instance.  *)
(* `inst' is m_instance, `call' the last event and its arguments with the  *)
(* number of events so far, `frame' m_instance before the event and the    *)
(* handler's locals, `image' the image of the active view the last         *)
(* Auto-Calc click read.                                                   *)
(***************************************************************************)
MaxEvents == 2

\* for ( int iter = 0; iter < 40; ++iter ) of SolveLogD, to its return.
RECURSIVE SolveLoop(_, _, _)
SolveLoop(f, targetMedian, bVal) ==
    IF f.pc # "loop" \/ f.iter >= SolveIterations THEN f.bestLogD
    ELSE SolveLoop(BisectionStep(f, MidLog(f),
                                 TestVal(MidLog(f), f.medianIn, bVal),
                                 targetMedian),
                   targetMedian, bVal)

SolveLogD(luma, targetMedian, bVal) ==
    SolveLoop(SolveEntry(Median(luma)), targetMedian, bVal)

\* HyperMetricStretchInstance::Assign for p of the same class.
Assign(I, x) == [field \in DOMAIN I |-> x[field]]

\* Mutant of DefaultsWithMode: the mode of the new instance is left as
\* constructed.
DefaultsWithMode_AsConstructed(currentMode) == DefaultInstance

\* defaultInstance of ResetInstance.
DefaultsWithMode(currentMode) ==
    [DefaultInstance EXCEPT !.processingMode = currentMode]

\* The values SolveLogD can return inside e_AutoCalc_Click for the image of
\* the main view; {} when NormalizeInput throws.
AutoCalcLogD(I, source) ==
    {SolveLogD(ExtractLuminance(working,
                   IF I.adaptiveAnchor
                   THEN CalculateAnchorAdaptive(working, GetSensorProfile(I))
                   ELSE CalculateAnchor(working),
                   GetSensorProfile(I)),
               I.targetBackground, I.protectB) :
        working \in NormalizeInput(source)}

\* Mutant of UpdateLogD: the target background is put back to its default.
UpdateLogD_ResetsTarget(I, logD) ==
    [I EXCEPT !.logD = logD, !.targetBackground = DefaultInstance.targetBackground]

\* m_instance.logD = logD;
UpdateLogD(I, logD) == [I EXCEPT !.logD = logD]

\* int( value )
TruncateToInt(value) ==
    IF value >= 0 THEN value \div One ELSE -((-value) \div One)

ModeButtons == {"ReadyToUse", "Scientific"}

\* Items of the sensor profile combo box.
ComboItems == {2, g_numSensorProfiles - 1}

NumericControls ==
    {"targetBackground", "logD", "protectB", "colorConvergence",
     "colorStrategy", "linearExpansion", "colorGrip", "shadowConvergence"}

\* Values a numeric control can report: an end of its range, and a
\* fractional value for the colour strategy.
ControlValues(sender) ==
    CASE sender = "targetBackground"  -> {One \div 2}
      [] sender = "logD"              -> {7 * One}
      [] sender = "protectB"          -> {Tenth}
      [] sender = "colorConvergence"  -> {10 * One}
      [] sender = "colorStrategy"     -> {-((75 * One) \div 2), 100 * One}
      [] sender = "linearExpansion"   -> {One}
      [] sender = "colorGrip"         -> {0}
      [] sender = "shadowConvergence" -> {3 * One}

\* The images of the main view of the active window.
ViewImages ==
    {[fmt |-> "Float32", width |-> 2, height |-> 1, nch |-> 1,
      px |-> <<<<FloatUnit \div 10, FloatUnit \div 2>>>>]}
    \cup RGBImagesOf("Float32", 1, {Orange})
    \cup ImagesOf("Complex32", 1, 1, 1, {0})

InitInterface ==
    /\ inst = DefaultInstance
    /\ call = [fn |-> "none", events |-> 0]
    /\ frame = [before |-> DefaultInstance]
    /\ ret = "pending"
    /\ image = EmptyImage
    /\ stages = <<>>

e_Mode_Click ==
    \E sender \in ModeButtons, checked \in BOOLEAN :
        /\ call.events < MaxEvents
        /\ call' = [fn |-> "e_Mode_Click", events |-> call.events + 1,
                    sender |-> sender, checked |-> checked]
        /\ frame' = [before |-> inst]
        /\ inst' = IF checked THEN [inst EXCEPT !.processingMode = sender]
                   ELSE inst
        /\ UNCHANGED <<ret, image, stages>>

e_SensorProfile_Selected ==
    \E itemIndex \in ComboItems :
        /\ call.events < MaxEvents
        /\ call' = [fn |-> "e_SensorProfile_Selected",
                    events |-> call.events + 1, itemIndex |-> itemIndex]
        /\ frame' = [before |-> inst]
        /\ inst' = [inst EXCEPT !.sensorProfile = itemIndex]
        /\ UNCHANGED <<ret, image, stages>>

e_AdaptiveAnchor_Click ==
    \E checked \in BOOLEAN :
        /\ call.events < MaxEvents
        /\ call' = [fn |-> "e_AdaptiveAnchor_Click",
                    events |-> call.events + 1, checked |-> checked]
        /\ frame' = [before |-> inst]
        /\ inst' = [inst EXCEPT !.adaptiveAnchor = checked]
        /\ UNCHANGED <<ret, image, stages>>

e_NumericControl_ValueUpdated ==
    \E sender \in NumericControls :
      \E value \in ControlValues(sender) :
        /\ call.events < MaxEvents
        /\ call' = [fn |-> "e_NumericControl_ValueUpdated",
                    events |-> call.events + 1, sender |-> sender,
                    value |-> value]
        /\ frame' = [before |-> inst]
        /\ inst' = [inst EXCEPT ![sender] =
                       IF sender = "colorStrategy" THEN TruncateToInt(value)
                       ELSE value]
        /\ UNCHANGED <<ret, image, stages>>

\* window.IsNull() or view.IsNull(): a message box, then return.
AutoCalcWithoutView ==
    \E window \in {"null", "nullView"} :
        /\ call.events < MaxEvents
        /\ call' = [fn |-> "e_AutoCalc_Click", events |-> call.events + 1,
                    window |-> window, threw |-> FALSE]
        /\ frame' = [before |-> inst, pc |-> "return"]
        /\ UNCHANGED <<inst, ret, image, stages>>

\* NormalizeInput throws, or an exception comes out of the computation
\* before its result is stored: catch, report.
AutoCalcThrows ==
    /\ call.events < MaxEvents
    /\ \E img \in ViewImages, threw \in BOOLEAN :
        /\ threw \/ NormalizeInput(img) = {}
        /\ call' = [fn |-> "e_AutoCalc_Click", events |-> call.events + 1,
                    window |-> "view", threw |-> threw]
        /\ frame' = [before |-> inst, pc |-> "catch"]
        /\ image' = img
        /\ UNCHANGED <<inst, ret, stages>>

AutoCalcComputes ==
    /\ call.events < MaxEvents
    /\ \E img \in ViewImages :
      \E logD \in AutoCalcLogD(inst, img) :
        /\ call' = [fn |-> "e_AutoCalc_Click", events |-> call.events + 1,
                    window |-> "view", threw |-> FALSE]
        /\ frame' = [before |-> inst, pc |-> "done", logD |-> logD]
        /\ inst' = UpdateLogD(inst, logD)
        /\ image' = img
        /\ UNCHANGED <<ret, stages>>

e_AutoCalc_Click ==
    AutoCalcWithoutView \/ AutoCalcThrows \/ AutoCalcComputes

\* ResetInstance: ImportProcess( defaultInstance ), which assigns.
ResetInstance ==
    /\ call.events < MaxEvents
    /\ call' = [fn |-> "ResetInstance", events |-> call.events + 1]
    /\ frame' = [before |-> inst]
    /\ inst' = Assign(inst, DefaultsWithMode(inst.processingMode))
    /\ UNCHANGED <<ret, image, stages>>

NextInterface ==
    \/ e_Mode_Click
    \/ e_SensorProfile_Selected
    \/ e_AdaptiveAnchor_Click
    \/ e_NumericControl_ValueUpdated
    \/ e_AutoCalc_Click
    \/ ResetInstance

SpecInterface == InitInterface /\ [][NextInterface]_vars

OtherParameters == DOMAIN DefaultInstance \ {"logD"}

\* C29: a click on Auto-Calc changes at most logD.  With no active window
\* or view, or when the computation throws, no parameter changes; otherwise
\* logD is the value SolveLogD returned, which is in [0, 7], and every other
\* parameter is as it was.
C29_AutoCalcOnlyLogD ==
    call.fn = "e_AutoCalc_Click" =>
        /\ \A field \in OtherParameters : inst[field] = frame.before[field]
        /\ IF call.window # "view" \/ call.threw
              \/ image.fmt \in ComplexFormats
           THEN inst.logD = frame.before.logD
           ELSE /\ "logD" \in DOMAIN frame
                /\ inst.logD = frame.logD
                /\ 0 <= inst.logD /\ inst.logD <= 7 * One

\* After the target background was moved to 0.5, a click finds a logD that is neither the old value nor the default.
C29_Witness ==
    /\ call.fn = "e_AutoCalc_Click"
    /\ call.window = "view" /\ ~call.threw
    /\ "logD" \in DOMAIN frame
    /\ inst.targetBackground = One \div 2
    /\ inst.logD # frame.before.logD
    /\ inst.logD # 2 * One
    /\ 0 < inst.logD /\ inst.logD < 7 * One

\* C30: after ResetInstance the processing mode is the one before it and
\* every other parameter has its default.
C30_ResetKeepsMode ==
    call.fn = "ResetInstance" =>
        /\ inst.processingMode = frame.before.processingMode
        /\ inst.sensorProfile = 0
        /\ inst.targetBackground = One \div 5
        /\ inst.logD = 2 * One
        /\ inst.protectB = 6 * One
        /\ 2 * inst.colorConvergence = 7 * One
        /\ inst.colorStrategy = 0
        /\ inst.colorGrip = One
        /\ inst.shadowConvergence = 0
        /\ inst.linearExpansion = 0
        /\ inst.adaptiveAnchor = TRUE

\* Reset in Scientific mode: the instance stays in Scientific mode, which is
\* not the mode of a newly constructed instance.
C30_Witness ==
    /\ call.fn = "ResetInstance"
    /\ frame.before.processingMode = "Scientific"
    /\ inst.processingMode = "Scientific"
    /\ DefaultInstance.processingMode # "Scientific"
    /\ inst.logD = 2 * One /\ inst.adaptiveAnchor

====
